---- MODULE Spec2Model ----
(***************************************************************************)
(* PromptOps: the content-addressed version store (core/versioning.py),    *)
(* the deployment coordinator (api/app.py deploy_version and               *)
(* rollback_deployment) and the Redis cache in front of the active prompt  *)
(* (deploy/engine.py).                                                     *)
(*                                                                         *)
(* Table rows are records in sequences; a row's id is its index (uuid4 is  *)
(* only ever compared for equality).  datetime.utcnow() is a logical clock *)
(* that advances at every reading that is stored; timestamps are compared  *)
(* only within one table, so each table has its own reading.  SHA-256 over *)
(* the canonical JSON string is taken to be injective, so a hash is the    *)
(* canonical record itself.                                                *)
(***************************************************************************)
EXTENDS Integers, Sequences, FiniteSets, TLC

VARIABLES
    versions,      \* table prompt_versions, in insertion order
    deployments,   \* table deployments, in insertion order
    cache,         \* Redis: cache key -> cached snapshot
    clock,         \* next value datetime.utcnow() returns, per table
    lastOp,        \* the last request served and what it returned (history)
    procs          \* per in-flight request: its position and its session's reads

vars == <<versions, deployments, cache, clock, lastOp, procs>>

----------------------------------------------------------------------------
(* Bounds of the model *)

MaxVersions == 2
MaxDeployments == 3
MaxCachedDeployments == 2
MaxConcurrentDeployments == 2

(* NULL of a UUID column / Python None of an Optional[UUID] *)
NoId == 0

(* name: Optional[str] = None; None and "" are both falsy in _get_cache_key *)
NoName == ""

(* Request inputs *)
Contents == {"Summarize: {text}", "Translate: {text}"}
Authors == {"alice", "bob"}
EnvInputs == {"staging", "prod"}
NameInputs == {NoName, "greeter"}

(* The numbers yaml.safe_load gives for a temperature: a Python int or a    *)
(* float, here with one decimal; 1 and 1.0 are equal numbers of two types   *)
IntNum(n) == [type |-> "int", tenths |-> 10 * n]
FloatNum(t) == [type |-> "float", tenths |-> t]

(* float(x): the coercion pydantic applies to a float field *)
ToFloat(x) == [type |-> "float", tenths |-> x.tenths]

(* json.dumps of a number: an int prints its digits, a float its repr *)
json_dumps(x) ==
    IF x.type = "int"
    THEN ToString(x.tenths \div 10)
    ELSE ToString(x.tenths \div 10) \o "." \o ToString(x.tenths % 10)

(* Metadata dicts as parse_prompt_file builds them *)
MetaFull == [name |-> "p", version |-> "1.0.0", model |-> "gpt-4",
             temperature |-> FloatNum(7)]
MetaCold == [name |-> "q", version |-> "1.0.0", model |-> "gpt-4",
             temperature |-> FloatNum(2)]
MetaRenamed == [name |-> "r", version |-> "1.0.0", model |-> "gpt-4",
                temperature |-> FloatNum(7), max_tokens |-> "256"]

----------------------------------------------------------------------------
(* Content store: core/versioning.py *)

(* dict.get(key, default) *)
Get(d, k, default) == IF k \in DOMAIN d THEN d[k] ELSE default

(* compute_hash hashing the whole metadata dict instead of the three keys *)
compute_hash_all_metadata(content, metadata) ==
    [content |-> content, metadata |-> metadata]

(* compute_hash with parse_prompt_file's default for the model, "gpt-4" *)
compute_hash_model_gpt4(content, metadata) ==
    [content     |-> content,
     model       |-> Get(metadata, "model", "gpt-4"),
     temperature |-> json_dumps(Get(metadata, "temperature", FloatNum(7))),
     version     |-> Get(metadata, "version", "1.0.0")]

(* compute_hash: the digest of json.dumps(hashable, sort_keys=True); the    *)
(* strings are quoted as they are, the temperature is printed               *)
compute_hash(content, metadata) ==
    [content     |-> content,
     model       |-> Get(metadata, "model", ""),
     temperature |-> json_dumps(Get(metadata, "temperature", FloatNum(7))),
     version     |-> Get(metadata, "version", "1.0.0")]

(* get_version_by_hash falling back to any stored version when none matches *)
get_version_by_hash_or_any(vs, h) ==
    IF {i \in DOMAIN vs : vs[i].hash = h} # {}
    THEN {i \in DOMAIN vs : vs[i].hash = h}
    ELSE DOMAIN vs

(* db.query(PromptVersion).filter(PromptVersion.hash == h).first(): the ids *)
(* the query can return, empty when no row matches                           *)
get_version_by_hash(vs, h) == {i \in DOMAIN vs : vs[i].hash = h}

(* get_current_head with order_by(PromptVersion.timestamp), ascending *)
get_current_head_ascending(vs) ==
    {i \in DOMAIN vs : \A j \in DOMAIN vs : vs[i].timestamp <= vs[j].timestamp}

(* get_current_head: order_by(desc(timestamp)).first() *)
get_current_head(vs) ==
    {i \in DOMAIN vs : \A j \in DOMAIN vs : vs[j].timestamp <= vs[i].timestamp}

(* full_metadata without the "commit_message" item *)
metadata_without_message(metadata, message) == metadata

(* {**metadata, "commit_message": message} *)
full_metadata(metadata, message) ==
    [k \in DOMAIN metadata \cup {"commit_message"} |->
        IF k = "commit_message" THEN message ELSE metadata[k]]

(* The PromptVersion row create_version builds *)
NewVersion(vs, now, content, metadata, tags, author, message, parent_id) ==
    [id              |-> Len(vs) + 1,
     content         |-> content,
     hash            |-> compute_hash(content, metadata),
     parent_id       |-> parent_id,
     author          |-> author,
     timestamp       |-> now,
     tags            |-> tags,
     prompt_metadata |-> full_metadata(metadata, message)]

(* InsertVersion as an amend of the head: the newest row is overwritten *)
AmendVersion(vs, row) ==
    IF vs = << >> THEN <<row>> ELSE [vs EXCEPT ![Len(vs)] = [row EXCEPT !.id = Len(vs)]]

(* db.add(new_version); db.commit(): INSERT INTO prompt_versions, the id    *)
(* generated at the insert                                                  *)
InsertVersion(vs, row) == Append(vs, [row EXCEPT !.id = Len(vs) + 1])

(* prompt_versions.parent_id without ForeignKey("prompt_versions.id") *)
ParentUnconstrained(vs, parent_id) == TRUE

(* The foreign key prompt_versions.parent_id -> prompt_versions.id *)
ParentExists(vs, parent_id) == parent_id = NoId \/ parent_id \in DOMAIN vs

(* db.query(PromptVersion).filter(PromptVersion.id == id).first(): the row, *)
(* None when there is none                                                  *)
VersionById(vs, id) == IF id \in DOMAIN vs THEN id ELSE NoId

RECURSIVE HistoryWalkUncounted(_, _, _, _, _)
(* HistoryWalk without the test count < limit *)
HistoryWalkUncounted(vs, current, count, limit, walked) ==
    IF current = NoId
    THEN walked
    ELSE IF vs[current].parent_id # NoId
         THEN HistoryWalkUncounted(vs, VersionById(vs, vs[current].parent_id),
                                   count + 1, limit, Append(walked, current))
         ELSE Append(walked, current)

RECURSIVE HistoryWalk(_, _, _, _, _)
(* get_version_history's loop: while current and count < limit *)
HistoryWalk(vs, current, count, limit, walked) ==
    IF current = NoId \/ ~(count < limit)
    THEN walked
    ELSE IF vs[current].parent_id # NoId
         THEN HistoryWalk(vs, VersionById(vs, vs[current].parent_id),
                          count + 1, limit, Append(walked, current))
         ELSE Append(walked, current)

(* get_version_history: the walks it can return, from start_from or, when   *)
(* that is None, from the current head                                      *)
get_version_history(vs, limit, start_from) ==
    IF start_from # NoId
    THEN {HistoryWalk(vs, VersionById(vs, start_from), 0, limit, << >>)}
    ELSE IF vs = << >>
         THEN {<< >>}
         ELSE {HistoryWalk(vs, head, 0, limit, << >>) : head \in get_current_head(vs)}

----------------------------------------------------------------------------
(* Diffs: get_diff in core/versioning.py.  A content is a sequence of       *)
(* characters and a line a sequence of characters with its line ending, so  *)
(* that str.splitlines and difflib.unified_diff are computed.  Positions    *)
(* are Python's: a[i] is the element i + 1 of the sequence a, and a[i:j]    *)
(* is SubSeq(a, i + 1, j).                                                  *)

min(x, y) == IF x <= y THEN x ELSE y
max(x, y) == IF x >= y THEN x ELSE y

RECURSIVE splitlines_without_ends(_)
(* str.splitlines(): keepends left at its default, False *)
splitlines_without_ends(t) ==
    IF t = << >> THEN << >>
    ELSE IF \E k \in DOMAIN t : t[k] = "\n"
         THEN LET k == CHOOSE k \in DOMAIN t :
                          t[k] = "\n" /\ \A m \in 1..(k - 1) : t[m] # "\n" IN
              <<SubSeq(t, 1, k - 1)>> \o splitlines_without_ends(SubSeq(t, k + 1, Len(t)))
         ELSE <<t>>

RECURSIVE splitlines(_)
(* str.splitlines(keepends=True), for texts whose line boundaries are "\n": *)
(* every line keeps its "\n", the last line has none when the text does not *)
(* end in one                                                               *)
splitlines(t) ==
    IF t = << >> THEN << >>
    ELSE IF \E k \in DOMAIN t : t[k] = "\n"
         THEN LET k == CHOOSE k \in DOMAIN t :
                          t[k] = "\n" /\ \A m \in 1..(k - 1) : t[m] # "\n" IN
              <<SubSeq(t, 1, k)>> \o splitlines(SubSeq(t, k + 1, Len(t)))
         ELSE <<t>>

RECURSIVE match_length(_, _, _, _, _, _)
(* The length of the block of equal elements that starts at a[i] and b[j]   *)
(* and lies within a[:ahi] and b[:bhi]                                      *)
match_length(a, b, i, j, ahi, bhi) ==
    IF i < ahi /\ j < bhi /\ a[i + 1] = b[j + 1]
    THEN 1 + match_length(a, b, i + 1, j + 1, ahi, bhi)
    ELSE 0

(* SequenceMatcher.find_longest_match without junk (autojunk needs 200      *)
(* elements): the longest block a[i:i+k] = b[j:j+k] in a[alo:ahi] and       *)
(* b[blo:bhi]; of the longest it is the one that starts earliest in a, and  *)
(* of those the one that starts earliest in b; (alo, blo, 0) when no        *)
(* element matches                                                          *)
find_longest_match(a, b, alo, ahi, blo, bhi) ==
    LET starts == {s \in (alo..(ahi - 1)) \X (blo..(bhi - 1)) :
                      a[s[1] + 1] = b[s[2] + 1]}
        sized == {<<s[1], s[2], match_length(a, b, s[1], s[2], ahi, bhi)>> :
                      s \in starts} IN
    IF starts = {}
    THEN <<alo, blo, 0>>
    ELSE CHOOSE m \in sized : \A o \in sized :
             \/ o[3] < m[3]
             \/ o[3] = m[3] /\ (m[1] < o[1] \/ (m[1] = o[1] /\ m[2] <= o[2]))

RECURSIVE matching_blocks_in(_, _, _, _, _, _)
(* get_matching_blocks' queue: the longest match of a range, then the       *)
(* ranges to its left and to its right; the blocks come out sorted          *)
matching_blocks_in(a, b, alo, ahi, blo, bhi) ==
    LET m == find_longest_match(a, b, alo, ahi, blo, bhi) IN
    IF m[3] = 0
    THEN << >>
    ELSE (IF alo < m[1] /\ blo < m[2]
          THEN matching_blocks_in(a, b, alo, m[1], blo, m[2])
          ELSE << >>)
         \o <<m>>
         \o (IF m[1] + m[3] < ahi /\ m[2] + m[3] < bhi
             THEN matching_blocks_in(a, b, m[1] + m[3], ahi, m[2] + m[3], bhi)
             ELSE << >>)

RECURSIVE collapse_adjacent(_, _)
(* get_matching_blocks' second loop: adjacent blocks become one *)
collapse_adjacent(blocks, cur) ==
    IF blocks = << >>
    THEN IF cur[3] > 0 THEN <<cur>> ELSE << >>
    ELSE IF cur[1] + cur[3] = Head(blocks)[1] /\ cur[2] + cur[3] = Head(blocks)[2]
         THEN collapse_adjacent(Tail(blocks),
                                <<cur[1], cur[2], cur[3] + Head(blocks)[3]>>)
         ELSE (IF cur[3] > 0 THEN <<cur>> ELSE << >>)
              \o collapse_adjacent(Tail(blocks), Head(blocks))

(* SequenceMatcher.get_matching_blocks, the sentinel (len(a), len(b), 0)    *)
(* last                                                                     *)
get_matching_blocks(a, b) ==
    collapse_adjacent(matching_blocks_in(a, b, 0, Len(a), 0, Len(b)), <<0, 0, 0>>)
        \o << <<Len(a), Len(b), 0>> >>

RECURSIVE opcodes_from(_, _, _)
(* get_opcodes' loop over the matching blocks, i and j the positions        *)
(* reached in a and b                                                       *)
opcodes_from(blocks, i, j) ==
    IF blocks = << >>
    THEN << >>
    ELSE LET ai == Head(blocks)[1]
             bj == Head(blocks)[2]
             size == Head(blocks)[3]
             tag == IF i < ai /\ j < bj THEN "replace"
                    ELSE IF i < ai THEN "delete"
                    ELSE IF j < bj THEN "insert"
                    ELSE "" IN
         (IF tag # ""
          THEN <<[tag |-> tag, i1 |-> i, i2 |-> ai, j1 |-> j, j2 |-> bj]>>
          ELSE << >>)
         \o (IF size > 0
             THEN <<[tag |-> "equal", i1 |-> ai, i2 |-> ai + size,
                     j1 |-> bj, j2 |-> bj + size]>>
             ELSE << >>)
         \o opcodes_from(Tail(blocks), ai + size, bj + size)

(* SequenceMatcher.get_opcodes *)
get_opcodes(a, b) == opcodes_from(get_matching_blocks(a, b), 0, 0)

RECURSIVE groups_from(_, _, _)
(* get_grouped_opcodes' loop: a run of more than 2n equal lines ends the    *)
(* group after n of them and starts the next n before its end; a group of   *)
(* nothing but one equal range is not given out                             *)
groups_from(codes, n, group) ==
    IF codes = << >>
    THEN IF group # << >> /\ ~(Len(group) = 1 /\ group[1].tag = "equal")
         THEN <<group>>
         ELSE << >>
    ELSE LET c == Head(codes) IN
         IF c.tag = "equal" /\ c.i2 - c.i1 > n + n
         THEN <<Append(group, [c EXCEPT !.i2 = min(c.i2, c.i1 + n),
                                        !.j2 = min(c.j2, c.j1 + n)])>>
              \o groups_from(Tail(codes), n,
                             <<[c EXCEPT !.i1 = max(c.i1, c.i2 - n),
                                         !.j1 = max(c.j1, c.j2 - n)]>>)
         ELSE groups_from(Tail(codes), n, Append(group, c))

(* if not codes: codes = [("equal", 0, 1, 0, 1)] *)
codes_or_equal(codes) ==
    IF codes = << >>
    THEN <<[tag |-> "equal", i1 |-> 0, i2 |-> 1, j1 |-> 0, j2 |-> 1]>>
    ELSE codes

(* A leading equal range is cut to its last n lines *)
cut_leading(codes, n) ==
    IF codes[1].tag = "equal"
    THEN [codes EXCEPT ![1] = [@ EXCEPT !.i1 = max(codes[1].i1, codes[1].i2 - n),
                                        !.j1 = max(codes[1].j1, codes[1].j2 - n)]]
    ELSE codes

(* A trailing equal range is cut to its first n lines *)
cut_trailing(codes, n) ==
    IF codes[Len(codes)].tag = "equal"
    THEN [codes EXCEPT ![Len(codes)] =
             [@ EXCEPT !.i2 = min(codes[Len(codes)].i2, codes[Len(codes)].i1 + n),
                       !.j2 = min(codes[Len(codes)].j2, codes[Len(codes)].j1 + n)]]
    ELSE codes

(* SequenceMatcher.get_grouped_opcodes(n) *)
get_grouped_opcodes(a, b, n) ==
    groups_from(cut_trailing(cut_leading(codes_or_equal(get_opcodes(a, b)), n), n),
                n, << >>)

(* difflib._format_range_unified: the numbers are printed, the length is    *)
(* left out when it is 1 and an empty range begins at the line before it    *)
format_range_unified(start, stop) ==
    IF stop - start = 1
    THEN <<ToString(start + 1)>>
    ELSE <<ToString(IF stop - start = 0 THEN start ELSE start + 1), ",",
           ToString(stop - start)>>

(* tag + line for every line of lines *)
Prefixed(tag, lines) == [k \in DOMAIN lines |-> <<tag>> \o lines[k]]

RECURSIVE group_lines(_, _, _)
(* unified_diff's loop over the opcodes of one group *)
group_lines(a, b, group) ==
    IF group = << >>
    THEN << >>
    ELSE LET c == Head(group) IN
         (IF c.tag = "equal"
          THEN Prefixed(" ", SubSeq(a, c.i1 + 1, c.i2))
          ELSE (IF c.tag \in {"replace", "delete"}
                THEN Prefixed("-", SubSeq(a, c.i1 + 1, c.i2))
                ELSE << >>)
               \o (IF c.tag \in {"replace", "insert"}
                   THEN Prefixed("+", SubSeq(b, c.j1 + 1, c.j2))
                   ELSE << >>))
         \o group_lines(a, b, Tail(group))

(* The hunk of one group: "@@ -range +range @@" and its lines *)
hunk_lines(a, b, group) ==
    << <<"@@", " ", "-">>
          \o format_range_unified(group[1].i1, group[Len(group)].i2)
          \o <<" ", "+">>
          \o format_range_unified(group[1].j1, group[Len(group)].j2)
          \o <<" ", "@@">> >>
    \o group_lines(a, b, group)

RECURSIVE hunks_of(_, _, _)
hunks_of(a, b, groups) ==
    IF groups = << >>
    THEN << >>
    ELSE hunk_lines(a, b, Head(groups)) \o hunks_of(a, b, Tail(groups))

(* unified_diff's started flag: "--- fromfile" and "+++ tofile" go before   *)
(* the first hunk, and nothing is given out when there is no hunk           *)
file_lines(fromfile, tofile, hunks) ==
    IF hunks = << >>
    THEN << >>
    ELSE << <<"-", "-", "-", " ", fromfile>>, <<"+", "+", "+", " ", tofile>> >> \o hunks

(* n=3, the context unified_diff is called with by default *)
ContextLines == 3

(* difflib.unified_diff(a, b, fromfile, tofile, lineterm=""): nothing when  *)
(* no group comes out, else the two file lines and the hunks.  A line of    *)
(* the diff is a sequence of characters; a printed number and a file name   *)
(* are kept as one element each                                             *)
unified_diff(a, b, fromfile, tofile) ==
    file_lines(fromfile, tofile, hunks_of(a, b, get_grouped_opcodes(a, b, ContextLines)))

(* f"version {version.hash[:8]}" *)
VersionLabel(v) == [version |-> v.hash, chars |-> 8]

(* get_diff *)
get_diff(version_a, version_b) ==
    [hash_a      |-> version_a.hash,
     hash_b      |-> version_b.hash,
     diff_lines  |-> unified_diff(splitlines(version_a.content),
                                  splitlines(version_b.content),
                                  VersionLabel(version_a), VersionLabel(version_b)),
     author_a    |-> version_a.author,
     author_b    |-> version_b.author,
     timestamp_a |-> version_a.timestamp,
     timestamp_b |-> version_b.timestamp]

----------------------------------------------------------------------------
(* Cache: deploy/engine.py *)

(* The characters of the environment and prompt names that requests carry; *)
(* a key and a pattern are sequences of characters                          *)
Explode(str) ==
    CASE str = "prod"    -> <<"p", "r", "o", "d">>
      [] str = "staging" -> <<"s", "t", "a", "g", "i", "n", "g">>
      [] str = "pro[d]"  -> <<"p", "r", "o", "[", "d", "]">>
      [] str = "default" -> <<"d", "e", "f", "a", "u", "l", "t">>
      [] str = "greeter" -> <<"g", "r", "e", "e", "t", "e", "r">>
      [] str = "dev"     -> <<"d", "e", "v">>
      [] str = "qa"      -> <<"q", "a">>
      [] str = "prod:x"  -> <<"p", "r", "o", "d", ":", "x">>
      [] str = "x:default" -> <<"x", ":", "d", "e", "f", "a", "u", "l", "t">>

(* The literal "promptops:prompt:" every key and pattern starts with, kept  *)
(* as one element                                                           *)
KeyPrefix == <<"promptops:prompt:">>

(* _get_cache_key without the name *)
CacheKeyOfEnvironment(environment, name) ==
    KeyPrefix \o Explode(environment) \o <<":">> \o Explode("default")

(* DeploymentEngine._get_cache_key *)
CacheKey(environment, name) ==
    KeyPrefix \o Explode(environment) \o <<":">>
        \o Explode(IF name = NoName THEN "default" ELSE name)

(* pattern = f"promptops:prompt:{environment}:*" *)
InvalidatePattern(environment) ==
    KeyPrefix \o Explode(environment) \o <<":", "*">>

(* The position of the "]" that closes the character class opened at the   *)
(* head of p, Len(p) + 1 when the class is not closed                       *)
ClassClose(p) ==
    IF \E i \in 2..Len(p) : p[i] = "]"
    THEN CHOOSE i \in 2..Len(p) : p[i] = "]" /\ \A j \in 2..(i - 1) : p[j] # "]"
    ELSE Len(p) + 1

RECURSIVE stringmatch(_, _)
(* The glob match Redis applies in KEYS: * any characters, ? one character, *)
(* [...] one character of a class ([^...] one outside it), \c the          *)
(* character c; ranges within a class are left out                          *)
stringmatch(p, t) ==
    IF p = << >> THEN t = << >>
    ELSE IF Head(p) = "*"
         THEN stringmatch(Tail(p), t) \/ (t # << >> /\ stringmatch(p, Tail(t)))
    ELSE IF t = << >> THEN FALSE
    ELSE IF Head(p) = "?" THEN stringmatch(Tail(p), Tail(t))
    ELSE IF Head(p) = "["
         THEN LET close == ClassClose(p)
                  negated == Len(p) >= 2 /\ p[2] = "^"
                  members == {p[i] : i \in (IF negated THEN 3 ELSE 2)..(close - 1)} IN
              /\ (Head(t) \in members) # negated
              /\ stringmatch(SubSeq(p, close + 1, Len(p)), Tail(t))
    ELSE IF Head(p) = "\\" /\ Len(p) >= 2
         THEN p[2] = Head(t) /\ stringmatch(SubSeq(p, 3, Len(p)), Tail(t))
    ELSE Head(p) = Head(t) /\ stringmatch(Tail(p), Tail(t))

(* redis KEYS promptops:prompt:{environment}:* *)
KeyMatches(key, environment) == stringmatch(InvalidatePattern(environment), key)

(* str(datetime), which json.dumps(prompt_data, default=str) applies to     *)
(* deployed_at, and the datetime the response model parses from it          *)
datetime_str(t) == [str |-> t]
parse_datetime(x) == x.str

(* json.dumps(prompt_data, default=str): the stored value *)
dumps(snapshot) == [snapshot EXCEPT !.deployed_at = datetime_str(@)]

(* The PromptResponse FastAPI validates a cached dict into *)
PromptResponseOf(cached) ==
    [cached EXCEPT !.deployed_at = parse_datetime(@), !.temperature = ToFloat(@)]

(* ttl: int = 3600, in units of the model's clock tick *)
DefaultTTL == 2

(* get_from_cache without the test of redis_available and the except clause *)
get_from_cache_unguarded(c, redis_ok, environment, name) ==
    IF CacheKey(environment, name) \in DOMAIN c
    THEN {c[CacheKey(environment, name)].value}
    ELSE {}

(* DeploymentEngine.get_from_cache: json.loads of the stored value, or {}   *)
(* on a miss, when Redis is not available and when GET fails                *)
get_from_cache(c, redis_ok, environment, name) ==
    IF redis_ok /\ CacheKey(environment, name) \in DOMAIN c
    THEN {c[CacheKey(environment, name)].value}
    ELSE {}

(* DeploymentEngine.set_cache: SETEX key ttl value; an entry is the value   *)
(* and the time it has left to live                                         *)
set_cache(c, redis_ok, environment, snapshot, name) ==
    IF redis_ok
    THEN [k \in DOMAIN c \cup {CacheKey(environment, name)} |->
            IF k = CacheKey(environment, name)
            THEN [value |-> dumps(snapshot), ttl |-> DefaultTTL]
            ELSE c[k]]
    ELSE c

(* expire for entries stored without a time to live (SET instead of SETEX) *)
expire_nothing(c) == c

(* Redis after one unit of time: every entry has one unit less to live and  *)
(* an entry with none left is gone                                          *)
expire(c) ==
    [k \in {x \in DOMAIN c : c[x].ttl > 1} |-> [c[k] EXCEPT !.ttl = @ - 1]]

(* invalidate_cache that stores an empty value under the environment's      *)
(* default key (SETEX) instead of deleting the environment's keys           *)
invalidate_cache_by_overwrite(c, redis_ok, environment) ==
    IF redis_ok
    THEN [k \in DOMAIN c \cup {CacheKey(environment, NoName)} |->
            IF k = CacheKey(environment, NoName)
            THEN [value |-> << >>, ttl |-> DefaultTTL]
            ELSE c[k]]
    ELSE c

(* DeploymentEngine.invalidate_cache *)
invalidate_cache(c, redis_ok, environment) ==
    IF redis_ok
    THEN [k \in {x \in DOMAIN c : ~KeyMatches(x, environment)} |-> c[k]]
    ELSE c

----------------------------------------------------------------------------
(* Deployment coordinator: api/app.py *)

(* ActiveRows without the environment filter *)
ActiveRowsAnyEnvironment(ds, environment) ==
    {i \in DOMAIN ds : ds[i].is_active}

(* filter(environment == e).filter(is_active == True) *)
ActiveRows(ds, environment) ==
    {i \in DOMAIN ds : ds[i].environment = environment /\ ds[i].is_active}

(* LatestOf with order_by(deployed_at.asc()) *)
OldestOf(ds, ids) ==
    {i \in ids : \A j \in ids : ds[i].deployed_at <= ds[j].deployed_at}

(* order_by(deployed_at.desc()).first() over the rows ids: the rows the     *)
(* query can return (one unless timestamps tie), empty when ids is empty    *)
LatestOf(ds, ids) ==
    {i \in ids : \A j \in ids : ds[j].deployed_at <= ds[i].deployed_at}

(* OtherRows without filter(Deployment.environment == environment) *)
OtherRowsAnyEnvironment(ds, environment, current) ==
    {i \in DOMAIN ds : i # current}

(* OtherRows with filter(Deployment.deployed_at < current.deployed_at) *)
OtherRowsBeforeCurrent(ds, environment, current) ==
    {i \in DOMAIN ds : /\ ds[i].environment = environment
                       /\ ds[i].deployed_at < ds[current].deployed_at}

(* OtherRows without filter(Deployment.id != current.id) *)
OtherRowsIncludingCurrent(ds, environment, current) ==
    {i \in DOMAIN ds : ds[i].environment = environment}

(* rollback_deployment's second query: rows of the environment other than   *)
(* current                                                                  *)
OtherRows(ds, environment, current) ==
    {i \in DOMAIN ds : ds[i].environment = environment /\ i # current}

(* The Deployment row deploy_version builds *)
NewDeployment(ds, now, version_id, environment, deployed_by) ==
    [id          |-> Len(ds) + 1,
     version_id  |-> version_id,
     environment |-> environment,
     deployed_by |-> deployed_by,
     deployed_at |-> now,
     is_active   |-> TRUE]

(* The session's flush of is_active assignments: UPDATE ... WHERE id = i *)
SetActive(ds, ids, flag) ==
    [i \in DOMAIN ds |-> IF i \in ids THEN [ds[i] EXCEPT !.is_active = flag] ELSE ds[i]]

(* DeployCommit without the loop that deactivates the loaded rows *)
DeployCommitKeepsActive(ds, current, row) ==
    Append(ds, [row EXCEPT !.id = Len(ds) + 1])

(* DeployCommit that inserts nothing when the version is already active *)
DeployCommitDedup(ds, current, row) ==
    IF \E i \in current : ds[i].version_id = row.version_id
    THEN ds
    ELSE Append(SetActive(ds, current, FALSE), [row EXCEPT !.id = Len(ds) + 1])

(* deploy_version's commit: the loaded active rows are deactivated and the  *)
(* new row inserted                                                         *)
DeployCommit(ds, current, row) ==
    Append(SetActive(ds, current, FALSE), [row EXCEPT !.id = Len(ds) + 1])

(* RollbackCommit without previous.is_active = True *)
RollbackCommitDropsPrevious(ds, current, previous) ==
    SetActive(ds, {current}, FALSE)

(* RollbackCommit without current.is_active = False *)
RollbackCommitKeepsCurrent(ds, current, previous) ==
    SetActive(ds, {previous}, TRUE)

(* rollback_deployment's commit: current.is_active = False;                 *)
(* previous.is_active = True                                                *)
RollbackCommit(ds, current, previous) ==
    SetActive(SetActive(ds, {current}, FALSE), {previous}, TRUE)

(* PromptResponse built by get_active_prompt *)
Snapshot(vs, ds, d, environment) ==
    [content     |-> vs[ds[d].version_id].content,
     hash        |-> vs[ds[d].version_id].hash,
     version     |-> Get(vs[ds[d].version_id].prompt_metadata, "version", "1.0.0"),
     model       |-> Get(vs[ds[d].version_id].prompt_metadata, "model", "gpt-4"),
     temperature |-> ToFloat(Get(vs[ds[d].version_id].prompt_metadata,
                                 "temperature", FloatNum(7))),
     metadata    |-> vs[ds[d].version_id].prompt_metadata,
     tags        |-> vs[ds[d].version_id].tags,
     deployed_at |-> ds[d].deployed_at,
     environment |-> environment]

----------------------------------------------------------------------------
(* Requests served one at a time *)

(* Request handlers that can overlap (API worker processes, the CLI's        *)
(* deploy_command), each with its own database session                      *)
Procs == {1, 2}

(* A handler between requests: pc is its position, status what its last     *)
(* request returned and ret the row it returned, arg that request's         *)
(* arguments, writes the is_active assignments its session holds unflushed, *)
(* row the row it has built                                                 *)
IdleProc == [pc |-> "idle", op |-> "none", status |-> "none", env |-> "",
             current |-> NoId, writes |-> {}, row |-> << >>,
             ret |-> NoId, arg |-> << >>]

(* The last request: ret is what it returned, pre the table it found,       *)
(* invalidated whether it called invalidate_cache, failed the cache calls   *)
(* it made that did not go through                                          *)
NoOp == [op |-> "none", status |-> "none", env |-> "", ret |-> NoId,
         invalidated |-> FALSE, arg |-> << >>, pre |-> << >>, failed |-> {}]

Init ==
    /\ versions = << >>
    /\ deployments = << >>
    /\ cache = << >>
    /\ clock = [v |-> 1, d |-> 1]
    /\ lastOp = NoOp
    /\ procs = [p \in Procs |-> IdleProc]

(* create_version *)
Commit(content, metadata, tags, author, message, parent_id) ==
    LET existing == get_version_by_hash(versions, compute_hash(content, metadata))
        arg == [content |-> content, metadata |-> metadata, tags |-> tags,
                author |-> author, message |-> message, parent_id |-> parent_id] IN
    /\ UNCHANGED <<deployments, cache, procs>>
    /\ IF existing # {}
       THEN /\ \E v \in existing :
                 lastOp' = [NoOp EXCEPT !.op = "commit", !.status = "existing",
                                        !.ret = v, !.arg = arg, !.pre = versions]
            /\ UNCHANGED <<versions, clock>>
       ELSE IF ~ParentExists(versions, parent_id)
       THEN /\ lastOp' = [NoOp EXCEPT !.op = "commit", !.status = "IntegrityError",
                                      !.arg = arg, !.pre = versions]
            /\ UNCHANGED <<versions, clock>>
       ELSE /\ versions' = InsertVersion(versions,
                   NewVersion(versions, clock.v, content, metadata, tags, author,
                              message, parent_id))
            /\ clock' = [clock EXCEPT !.v = @ + 1]
            /\ lastOp' = [NoOp EXCEPT !.op = "commit", !.status = "created",
                                      !.ret = Len(versions) + 1, !.arg = arg,
                                      !.pre = versions]

(* deploy_version that constructs the engine before its queries and answers *)
(* 503 when Redis is not available                                          *)
DeployRequiringCache(environment, version_hash, deployed_by, redis_ok) ==
    LET found == get_version_by_hash(versions, version_hash)
        arg == [version_hash |-> version_hash, deployed_by |-> deployed_by] IN
    /\ UNCHANGED <<versions, procs>>
    /\ IF found = {} \/ ~redis_ok
       THEN /\ lastOp' = [NoOp EXCEPT !.op = "deploy",
                              !.status = IF found = {} THEN "NotFound" ELSE "Unavailable",
                              !.env = environment, !.arg = arg,
                              !.pre = deployments]
            /\ UNCHANGED <<deployments, cache, clock>>
       ELSE /\ \E v \in found :
                 deployments' = DeployCommit(deployments,
                     ActiveRows(deployments, environment),
                     NewDeployment(deployments, clock.d, v, environment, deployed_by))
            /\ clock' = [clock EXCEPT !.d = @ + 1]
            /\ cache' = invalidate_cache(cache, redis_ok, environment)
            /\ lastOp' = [NoOp EXCEPT !.op = "deploy", !.status = "ok",
                                      !.env = environment, !.ret = Len(deployments) + 1,
                                      !.invalidated = TRUE, !.arg = arg,
                                      !.pre = deployments]

(* deploy_version *)
Deploy(environment, version_hash, deployed_by, redis_ok) ==
    LET found == get_version_by_hash(versions, version_hash)
        arg == [version_hash |-> version_hash, deployed_by |-> deployed_by] IN
    /\ UNCHANGED <<versions, procs>>
    /\ IF found = {}
       THEN /\ lastOp' = [NoOp EXCEPT !.op = "deploy", !.status = "NotFound",
                                      !.env = environment, !.arg = arg,
                                      !.pre = deployments]
            /\ UNCHANGED <<deployments, cache, clock>>
       ELSE /\ \E v \in found :
                 deployments' = DeployCommit(deployments,
                     ActiveRows(deployments, environment),
                     NewDeployment(deployments, clock.d, v, environment, deployed_by))
            /\ clock' = [clock EXCEPT !.d = @ + 1]
            /\ cache' = invalidate_cache(cache, redis_ok, environment)
            /\ lastOp' = [NoOp EXCEPT !.op = "deploy", !.status = "ok",
                                      !.env = environment, !.ret = Len(deployments) + 1,
                                      !.invalidated = TRUE, !.arg = arg,
                                      !.pre = deployments,
                                      !.failed = IF redis_ok THEN {} ELSE {"delete"}]

(* rollback_deployment *)
Rollback(environment, redis_ok) ==
    LET currents == LatestOf(deployments, ActiveRows(deployments, environment)) IN
    /\ UNCHANGED <<versions, clock, procs>>
    /\ IF currents = {}
       THEN /\ lastOp' = [NoOp EXCEPT !.op = "rollback", !.status = "NoActive",
                                      !.env = environment, !.pre = deployments]
            /\ UNCHANGED <<deployments, cache>>
       ELSE \E current \in currents :
            LET previouses == LatestOf(deployments,
                                  OtherRows(deployments, environment, current)) IN
            IF previouses = {}
            THEN /\ lastOp' = [NoOp EXCEPT !.op = "rollback", !.status = "NoPrevious",
                                           !.env = environment, !.pre = deployments]
                 /\ UNCHANGED <<deployments, cache>>
            ELSE \E previous \in previouses :
                 /\ deployments' = RollbackCommit(deployments, current, previous)
                 /\ cache' = invalidate_cache(cache, redis_ok, environment)
                 /\ lastOp' = [NoOp EXCEPT !.op = "rollback", !.status = "ok",
                                           !.env = environment, !.ret = previous,
                                           !.invalidated = TRUE, !.pre = deployments,
                                           !.failed = IF redis_ok THEN {} ELSE {"delete"}]

(* get_active_prompt; get_ok and set_ok say whether the engine's GET and    *)
(* SETEX go through (both fail when its constructor found Redis down)       *)
GetActivePrompt(environment, name, get_ok, set_ok) ==
    LET cached == get_from_cache(cache, get_ok, environment, name)
        actives == LatestOf(deployments, ActiveRows(deployments, environment))
        read == [NoOp EXCEPT !.op = "read", !.env = environment,
                             !.arg = [name |-> name],
                             !.failed = IF get_ok THEN {} ELSE {"get"}] IN
    /\ UNCHANGED <<versions, deployments, clock, procs>>
    /\ IF cached # {}
       THEN /\ \E hit \in cached :
                 lastOp' = [read EXCEPT !.status = "hit", !.ret = PromptResponseOf(hit)]
            /\ UNCHANGED cache
       ELSE IF actives = {}
       THEN /\ lastOp' = [read EXCEPT !.status = "NotFound"]
            /\ UNCHANGED cache
       ELSE \E d \in actives :
            /\ cache' = set_cache(cache, set_ok, environment,
                                  Snapshot(versions, deployments, d, environment), name)
            /\ lastOp' = [read EXCEPT !.status = "miss",
                              !.ret = Snapshot(versions, deployments, d, environment),
                              !.failed = @ \cup (IF set_ok THEN {} ELSE {"set"})]

----------------------------------------------------------------------------
(* The coordinator, requests one at a time, nothing cached *)

HashInputs == {compute_hash(c, MetaFull) : c \in Contents}

(* commit_command: the parent is the current HEAD, if there is one *)
CommitRequest ==
    /\ \E c \in Contents,
          parent \in (IF versions = << >> THEN {NoId} ELSE get_current_head(versions)) :
          Commit(c, MetaFull, <<"v1">>, "alice", "initial", parent)
    /\ Len(versions') <= MaxVersions

DeployRequest ==
    /\ \E e \in EnvInputs, h \in HashInputs, a \in Authors :
          Deploy(e, h, a, TRUE)
    /\ Len(deployments') <= MaxDeployments

RollbackRequest ==
    \E e \in EnvInputs : Rollback(e, TRUE)

Next ==
    \/ CommitRequest
    \/ DeployRequest
    \/ RollbackRequest

Spec == Init /\ [][Next]_vars

----------------------------------------------------------------------------
(* The coordinator behind the cache: reads populate it, Redis may be down   *)
(* for any request                                                          *)

CachedDeployRequest ==
    /\ \E e \in EnvInputs, h \in HashInputs, r \in BOOLEAN :
          Deploy(e, h, "alice", r)
    /\ Len(deployments') <= MaxCachedDeployments

CachedRollbackRequest ==
    \E e \in EnvInputs, r \in BOOLEAN : Rollback(e, r)

ReadRequest ==
    \E e \in EnvInputs, n \in NameInputs, r \in BOOLEAN : GetActivePrompt(e, n, r, r)

NextCache ==
    \/ CommitRequest
    \/ CachedDeployRequest
    \/ CachedRollbackRequest
    \/ ReadRequest

SpecCache == Init /\ [][NextCache]_vars

----------------------------------------------------------------------------
(* The cache under any environment name POST /deploy accepts (deploy_version *)
(* does not look at the name) and under failures of single cache calls      *)

MaxKeyedDeployments == 2

KeyEnvInputs == {"prod", "pro[d]"}

KeyedCommitRequest ==
    /\ Commit("Summarize: {text}", MetaFull, <<"v1">>, "alice", "initial", NoId)
    /\ versions = << >>

KeyedDeployRequest ==
    /\ \E e \in KeyEnvInputs, h \in HashInputs, r \in BOOLEAN :
          Deploy(e, h, "alice", r)
    /\ Len(deployments') <= MaxKeyedDeployments

KeyedRollbackRequest ==
    \E e \in KeyEnvInputs, r \in BOOLEAN : Rollback(e, r)

KeyedReadRequest ==
    \E e \in KeyEnvInputs, n \in NameInputs \cup {"default"},
       g \in BOOLEAN, p \in BOOLEAN :
        GetActivePrompt(e, n, g, p)

NextKeys ==
    \/ KeyedCommitRequest
    \/ KeyedDeployRequest
    \/ KeyedRollbackRequest
    \/ KeyedReadRequest

SpecKeys == Init /\ [][NextKeys]_vars

----------------------------------------------------------------------------
(* Environment and prompt names with the key's separator in them: the path  *)
(* parameter of GET /prompts/{environment}/active and its query parameter   *)
(* name are any strings                                                     *)

MaxSeparatorDeployments == 2

SeparatorEnvInputs == {"prod", "prod:x"}
SeparatorNameInputs == {NoName, "x:default"}

SeparatorDeployRequest ==
    /\ \E e \in SeparatorEnvInputs, h \in HashInputs :
          Deploy(e, h, "alice", TRUE)
    /\ Len(deployments') <= MaxSeparatorDeployments

SeparatorRollbackRequest ==
    \E e \in SeparatorEnvInputs : Rollback(e, TRUE)

SeparatorReadRequest ==
    \E e \in SeparatorEnvInputs, n \in SeparatorNameInputs :
        GetActivePrompt(e, n, TRUE, TRUE)

NextSeparator ==
    \/ KeyedCommitRequest
    \/ SeparatorDeployRequest
    \/ SeparatorRollbackRequest
    \/ SeparatorReadRequest

SpecSeparator == Init /\ [][NextSeparator]_vars

----------------------------------------------------------------------------
(* Deploys through both entry points: POST /deploy takes the environment as *)
(* any string, the command line's deploy_command checks it against          *)
(* valid_envs, resolves the version from the hash or from HEAD, and asks    *)
(* for confirmation before a deploy to prod                                 *)

MaxEnvironmentDeployments == 2

(* valid_envs = ["dev", "staging", "prod"] *)
valid_envs == {"dev", "staging", "prod"}

(* version_hash: Optional[str] = None and author: Optional[str] = None *)
NoHash == [content |-> "", model |-> "", temperature |-> "", version |-> ""]
NoAuthor == ""

(* deploy_command; config_author is the author of .promptops/config, or     *)
(* "unknown", confirmed the answer to typer.confirm                         *)
DeployCommand(environment, version_hash, author, config_author, confirmed, redis_ok) ==
    LET found == IF version_hash # NoHash
                 THEN get_version_by_hash(versions, version_hash)
                 ELSE get_current_head(versions)
        deployed_by == IF author # NoAuthor THEN author ELSE config_author
        arg == [version_hash |-> version_hash, deployed_by |-> deployed_by]
        exit == [NoOp EXCEPT !.op = "deploy", !.env = environment, !.arg = arg,
                             !.pre = deployments] IN
    /\ UNCHANGED <<versions, procs>>
    /\ IF environment \notin valid_envs
       THEN /\ lastOp' = [exit EXCEPT !.status = "InvalidEnvironment"]
            /\ UNCHANGED <<deployments, cache, clock>>
       ELSE IF found = {}
       THEN /\ lastOp' = [exit EXCEPT !.status = "NotFound"]
            /\ UNCHANGED <<deployments, cache, clock>>
       ELSE IF environment = "prod" /\ ~confirmed
       THEN /\ lastOp' = [exit EXCEPT !.status = "Cancelled"]
            /\ UNCHANGED <<deployments, cache, clock>>
       ELSE /\ \E v \in found :
                 deployments' = DeployCommit(deployments,
                     ActiveRows(deployments, environment),
                     NewDeployment(deployments, clock.d, v, environment, deployed_by))
            /\ clock' = [clock EXCEPT !.d = @ + 1]
            /\ cache' = invalidate_cache(cache, redis_ok, environment)
            /\ lastOp' = [exit EXCEPT !.status = "ok", !.ret = Len(deployments) + 1,
                                      !.invalidated = TRUE,
                                      !.failed = IF redis_ok THEN {} ELSE {"delete"}]

(* The environment names a caller can send *)
AnyEnvInputs == valid_envs \cup {"qa"}

ApiDeployRequest ==
    /\ \E e \in AnyEnvInputs, h \in HashInputs :
          Deploy(e, h, "alice", TRUE)
    /\ Len(deployments') <= MaxEnvironmentDeployments

CliDeployRequest ==
    /\ \E e \in AnyEnvInputs, h \in HashInputs \cup {NoHash},
          a \in {NoAuthor, "bob"}, c \in BOOLEAN :
          DeployCommand(e, h, a, "unknown", c, TRUE)
    /\ Len(deployments') <= MaxEnvironmentDeployments

AnyRollbackRequest ==
    \E e \in AnyEnvInputs : Rollback(e, TRUE)

NextEnvironments ==
    \/ CommitRequest
    \/ ApiDeployRequest
    \/ CliDeployRequest
    \/ AnyRollbackRequest

SpecEnvironments == Init /\ [][NextEnvironments]_vars

----------------------------------------------------------------------------
(* Overlapping deploy and rollback requests.  Each handler has its own      *)
(* session; a query reads the rows committed so far (READ COMMITTED, the    *)
(* PostgreSQL default create_engine leaves in place), db.commit() flushes   *)
(* the session's pending writes and commits them in one step.               *)

(* The unit of work's flush: one UPDATE ... WHERE id = i per attribute      *)
(* whose value differs from the one loaded                                  *)
Flush(ds, writes) ==
    [i \in DOMAIN ds |->
        IF <<i, TRUE>> \in writes THEN [ds[i] EXCEPT !.is_active = TRUE]
        ELSE IF <<i, FALSE>> \in writes THEN [ds[i] EXCEPT !.is_active = FALSE]
        ELSE ds[i]]

(* deploy_version up to the construction of the Deployment: the version     *)
(* lookup, the query of the active rows, dep.is_active = False for each     *)
DeployBegin(p, environment, version_hash, deployed_by) ==
    LET found == get_version_by_hash(versions, version_hash) IN
    /\ procs[p].pc = "idle"
    /\ UNCHANGED <<versions, deployments, cache, lastOp>>
    /\ IF found = {}
       THEN /\ procs' = [procs EXCEPT ![p] =
                   [IdleProc EXCEPT !.op = "deploy", !.status = "NotFound",
                                    !.env = environment]]
            /\ UNCHANGED clock
       ELSE /\ \E v \in found :
                 procs' = [procs EXCEPT ![p] =
                   [IdleProc EXCEPT !.pc = "deploy_commit", !.op = "deploy",
                        !.env = environment,
                        !.writes = {<<i, FALSE>> : i \in ActiveRows(deployments, environment)},
                        !.row = NewDeployment(deployments, clock.d, v, environment,
                                              deployed_by)]]
            /\ clock' = [clock EXCEPT !.d = @ + 1]

(* db.add(deployment); db.commit(); db.refresh(deployment) *)
DeployCommitStep(p) ==
    /\ procs[p].pc = "deploy_commit"
    /\ deployments' = Append(Flush(deployments, procs[p].writes),
                             [procs[p].row EXCEPT !.id = Len(deployments) + 1])
    /\ procs' = [procs EXCEPT ![p].pc = "invalidate", ![p].writes = {},
                              ![p].current = Len(deployments) + 1]
    /\ UNCHANGED <<versions, cache, clock, lastOp>>

(* RollbackBegin that invalidates the cache before it raises the 404 *)
RollbackBeginInvalidatesFirst(p, environment) ==
    LET currents == LatestOf(deployments, ActiveRows(deployments, environment)) IN
    /\ procs[p].pc = "idle"
    /\ UNCHANGED <<versions, deployments, cache, clock, lastOp>>
    /\ IF currents = {}
       THEN procs' = [procs EXCEPT ![p] =
                [IdleProc EXCEPT !.pc = "invalidate", !.op = "rollback",
                                 !.env = environment]]
       ELSE \E current \in currents :
            procs' = [procs EXCEPT ![p] =
                [IdleProc EXCEPT !.pc = "rollback_previous", !.op = "rollback",
                                 !.env = environment, !.current = current]]

(* rollback_deployment's first query *)
RollbackBegin(p, environment) ==
    LET currents == LatestOf(deployments, ActiveRows(deployments, environment)) IN
    /\ procs[p].pc = "idle"
    /\ UNCHANGED <<versions, deployments, cache, clock, lastOp>>
    /\ IF currents = {}
       THEN procs' = [procs EXCEPT ![p] =
                [IdleProc EXCEPT !.op = "rollback", !.status = "NoActive",
                                 !.env = environment]]
       ELSE \E current \in currents :
            procs' = [procs EXCEPT ![p] =
                [IdleProc EXCEPT !.pc = "rollback_previous", !.op = "rollback",
                                 !.env = environment, !.current = current]]

(* rollback_deployment's second query and the swap of the two loaded rows:  *)
(* current was loaded active; previous.is_active = True is a change only    *)
(* when previous was loaded inactive                                        *)
RollbackReadPrevious(p) ==
    LET previouses == LatestOf(deployments,
                          OtherRows(deployments, procs[p].env, procs[p].current)) IN
    /\ procs[p].pc = "rollback_previous"
    /\ UNCHANGED <<versions, deployments, cache, clock, lastOp>>
    /\ IF previouses = {}
       THEN procs' = [procs EXCEPT ![p] =
                [IdleProc EXCEPT !.op = "rollback", !.status = "NoPrevious",
                                 !.env = procs[p].env]]
       ELSE \E previous \in previouses :
            procs' = [procs EXCEPT ![p].pc = "rollback_commit",
                ![p].writes = {<<procs[p].current, FALSE>>} \cup
                    (IF deployments[previous].is_active THEN {}
                     ELSE {<<previous, TRUE>>})]

(* db.commit() of rollback_deployment *)
RollbackCommitStep(p) ==
    /\ procs[p].pc = "rollback_commit"
    /\ deployments' = Flush(deployments, procs[p].writes)
    /\ procs' = [procs EXCEPT ![p].pc = "invalidate", ![p].writes = {}]
    /\ UNCHANGED <<versions, cache, clock, lastOp>>

(* engine = DeploymentEngine(); engine.invalidate_cache(environment); return *)
InvalidateStep(p, redis_ok) ==
    /\ procs[p].pc = "invalidate"
    /\ cache' = invalidate_cache(cache, redis_ok, procs[p].env)
    /\ procs' = [procs EXCEPT ![p] =
           [IdleProc EXCEPT !.op = procs[p].op, !.status = "ok", !.env = procs[p].env]]
    /\ UNCHANGED <<versions, deployments, clock, lastOp>>

ConcurrentDeployBegin ==
    /\ \E p \in Procs, h \in HashInputs :
          DeployBegin(p, "staging", h, "alice")
    /\ clock'.d <= MaxConcurrentDeployments + 1

ConcurrentStep ==
    \E p \in Procs :
        \/ DeployCommitStep(p)
        \/ RollbackBegin(p, "staging")
        \/ RollbackReadPrevious(p)
        \/ RollbackCommitStep(p)
        \/ InvalidateStep(p, TRUE)

NextConcurrent ==
    \/ CommitRequest
    \/ ConcurrentDeployBegin
    \/ ConcurrentStep

SpecConcurrent == Init /\ [][NextConcurrent]_vars

----------------------------------------------------------------------------
(* Requests that fail or are abandoned between their queries and their      *)
(* db.commit(): the handler raises or its process ends, and the session is  *)
(* closed with its transaction open (get_db's and deploy_command's finally) *)

(* CloseSession for a session that flushes what it holds when it is closed *)
CloseSessionFlushing(ds, writes) == Flush(ds, writes)

(* db.close() before db.commit(): SessionLocal is made with autocommit and  *)
(* autoflush off, so the is_active assignments and the added row are still  *)
(* in the session and go with it                                            *)
CloseSession(ds, writes) == ds

(* The request of handler p ends before its commit *)
Abandon(p) ==
    /\ procs[p].pc \in {"deploy_commit", "rollback_previous", "rollback_commit"}
    /\ deployments' = CloseSession(deployments, procs[p].writes)
    /\ procs' = [procs EXCEPT ![p] =
           [IdleProc EXCEPT !.op = procs[p].op, !.status = "abandoned",
                            !.env = procs[p].env]]
    /\ UNCHANGED <<versions, cache, clock, lastOp>>

AbandonStep == \E p \in Procs : Abandon(p)

NextAbandon ==
    \/ KeyedCommitRequest
    \/ ConcurrentDeployBegin
    \/ ConcurrentStep
    \/ AbandonStep

SpecAbandon == Init /\ [][NextAbandon]_vars

----------------------------------------------------------------------------
(* Reads that overlap deploys and rollbacks, and the passage of time in     *)
(* Redis.  A read looks the key up, queries the store on a miss, and        *)
(* populates the cache in a later step; an entry lives DefaultTTL units of  *)
(* time from its SETEX.                                                     *)

MaxTimedDeployments == 2

(* get_active_prompt up to the construction of the PromptResponse *)
ReadBegin(p, environment, name, get_ok) ==
    LET cached == get_from_cache(cache, get_ok, environment, name)
        actives == LatestOf(deployments, ActiveRows(deployments, environment))
        read == [IdleProc EXCEPT !.op = "read", !.env = environment,
                                 !.arg = [name |-> name]] IN
    /\ procs[p].pc = "idle"
    /\ UNCHANGED <<versions, deployments, cache, clock, lastOp>>
    /\ IF cached # {}
       THEN \E hit \in cached :
               procs' = [procs EXCEPT ![p] =
                   [read EXCEPT !.status = "hit", !.ret = PromptResponseOf(hit)]]
       ELSE IF actives = {}
       THEN procs' = [procs EXCEPT ![p] = [read EXCEPT !.status = "NotFound"]]
       ELSE \E d \in actives :
               procs' = [procs EXCEPT ![p] =
                   [read EXCEPT !.pc = "populate",
                                !.row = Snapshot(versions, deployments, d, environment)]]

(* ReadPopulate that calls set_cache only when the row it read is still the *)
(* environment's active Deployment                                          *)
ReadPopulateIfCurrent(p, set_ok) ==
    /\ procs[p].pc = "populate"
    /\ cache' = IF \E d \in ActiveRows(deployments, procs[p].env) :
                      deployments[d].deployed_at = procs[p].row.deployed_at
                THEN set_cache(cache, set_ok, procs[p].env, procs[p].row,
                               procs[p].arg.name)
                ELSE cache
    /\ procs' = [procs EXCEPT ![p] =
           [IdleProc EXCEPT !.op = "read", !.status = "miss", !.env = procs[p].env,
                            !.ret = procs[p].row, !.arg = procs[p].arg]]
    /\ UNCHANGED <<versions, deployments, clock, lastOp>>

(* engine.set_cache(environment, response.dict(), name); return response *)
ReadPopulate(p, set_ok) ==
    /\ procs[p].pc = "populate"
    /\ cache' = set_cache(cache, set_ok, procs[p].env, procs[p].row, procs[p].arg.name)
    /\ procs' = [procs EXCEPT ![p] =
           [IdleProc EXCEPT !.op = "read", !.status = "miss", !.env = procs[p].env,
                            !.ret = procs[p].row, !.arg = procs[p].arg]]
    /\ UNCHANGED <<versions, deployments, clock, lastOp>>

(* One unit of time passes in Redis *)
Tick ==
    /\ cache' = expire(cache)
    /\ UNCHANGED <<versions, deployments, clock, lastOp, procs>>

TimedDeployBegin ==
    /\ \E p \in Procs :
          DeployBegin(p, "prod", compute_hash("Summarize: {text}", MetaFull), "alice")
    /\ clock'.d <= MaxTimedDeployments + 1

TimedWriteStep ==
    \E p \in Procs :
        \/ DeployCommitStep(p)
        \/ RollbackBegin(p, "prod")
        \/ RollbackReadPrevious(p)
        \/ RollbackCommitStep(p)
        \/ \E r \in BOOLEAN : InvalidateStep(p, r)

TimedReadBegin ==
    \E p \in Procs, g \in BOOLEAN : ReadBegin(p, "prod", NoName, g)

TimedReadPopulate(p) ==
    \E r \in BOOLEAN : ReadPopulate(p, r)

NextTimed ==
    \/ KeyedCommitRequest
    \/ TimedDeployBegin
    \/ TimedWriteStep
    \/ TimedReadBegin
    \/ \E p \in Procs : TimedReadPopulate(p)
    \/ Tick

(* Time passes, and a read that has queried the store goes on to populate   *)
(* the cache and return                                                     *)
SpecTimed ==
    /\ Init
    /\ [][NextTimed]_vars
    /\ WF_vars(Tick)
    /\ \A p \in Procs : WF_vars(TimedReadPopulate(p))

----------------------------------------------------------------------------
(* Reads that overlap deploys and rollbacks while Redis is reachable: every *)
(* lookup, SETEX and invalidation goes through                              *)

RaceWriteStep ==
    \E p \in Procs :
        \/ DeployCommitStep(p)
        \/ RollbackBegin(p, "prod")
        \/ RollbackReadPrevious(p)
        \/ RollbackCommitStep(p)
        \/ InvalidateStep(p, TRUE)

RaceReadBegin ==
    \E p \in Procs : ReadBegin(p, "prod", NoName, TRUE)

RaceReadPopulate ==
    \E p \in Procs : ReadPopulate(p, TRUE)

NextRace ==
    \/ KeyedCommitRequest
    \/ TimedDeployBegin
    \/ RaceWriteStep
    \/ RaceReadBegin
    \/ RaceReadPopulate
    \/ Tick

SpecRace == Init /\ [][NextRace]_vars

----------------------------------------------------------------------------
(* Overlapping commits.  create_version runs in the caller's session: the   *)
(* existence query reads the rows committed so far, db.commit() inserts the *)
(* row it built, and the UNIQUE constraint on hash and the foreign key on   *)
(* parent_id are checked by the database at that insert.                    *)

MaxConcurrentCommits == 3

(* create_version up to the construction of the PromptVersion: compute_hash, *)
(* the existence query, return existing when it finds a row                 *)
CommitBegin(p, content, metadata, tags, author, message, parent_id) ==
    LET existing == get_version_by_hash(versions, compute_hash(content, metadata))
        arg == [content |-> content, metadata |-> metadata] IN
    /\ procs[p].pc = "idle"
    /\ UNCHANGED <<versions, deployments, cache, lastOp>>
    /\ IF existing # {}
       THEN /\ \E v \in existing :
                 procs' = [procs EXCEPT ![p] =
                   [IdleProc EXCEPT !.op = "commit", !.status = "existing",
                                    !.ret = v, !.arg = arg]]
            /\ UNCHANGED clock
       ELSE /\ procs' = [procs EXCEPT ![p] =
                   [IdleProc EXCEPT !.pc = "commit_insert", !.op = "commit",
                        !.arg = arg,
                        !.row = NewVersion(versions, clock.v, content, metadata,
                                           tags, author, message, parent_id)]]
            /\ clock' = [clock EXCEPT !.v = @ + 1]

(* The UNIQUE constraint on prompt_versions.hash dropped *)
UniqueHashUnenforced(vs, row) == FALSE

(* hash = Column(String(64), unique=True, ...): the insert of row violates  *)
(* the UNIQUE constraint when a committed row has its hash                  *)
UniqueHashViolated(vs, row) == \E i \in DOMAIN vs : vs[i].hash = row.hash

(* db.add(new_version); db.commit(); db.refresh(new_version): the insert    *)
(* raises IntegrityError, which create_version does not catch, when a row   *)
(* with the hash has been committed since the existence query               *)
CommitInsertStep(p) ==
    /\ procs[p].pc = "commit_insert"
    /\ UNCHANGED <<deployments, cache, clock, lastOp>>
    /\ IF \/ UniqueHashViolated(versions, procs[p].row)
          \/ ~ParentExists(versions, procs[p].row.parent_id)
       THEN /\ procs' = [procs EXCEPT ![p] =
                   [IdleProc EXCEPT !.op = "commit", !.status = "IntegrityError",
                                    !.arg = procs[p].arg]]
            /\ UNCHANGED versions
       ELSE /\ versions' = InsertVersion(versions, procs[p].row)
            /\ procs' = [procs EXCEPT ![p] =
                   [IdleProc EXCEPT !.op = "commit", !.status = "created",
                                    !.ret = Len(versions) + 1,
                                    !.arg = procs[p].arg]]

ConcurrentCommitBegin ==
    /\ \E p \in Procs, c \in Contents,
          who \in {<<MetaFull, <<"v1">>, "alice", "initial">>,
                   <<MetaRenamed, <<"v2", "x">>, "bob", "again">>},
          parent \in (IF versions = << >> THEN {NoId} ELSE get_current_head(versions)) :
          CommitBegin(p, c, who[1], who[2], who[3], who[4], parent)
    /\ clock'.v <= MaxConcurrentCommits + 1

ConcurrentCommitStep ==
    \E p \in Procs : CommitInsertStep(p)

NextConcurrentCommit ==
    \/ ConcurrentCommitBegin
    \/ ConcurrentCommitStep

SpecConcurrentCommit == Init /\ [][NextConcurrentCommit]_vars

----------------------------------------------------------------------------
(* Commits of prompt files: commit_command parses each staged YAML file and *)
(* hands the parsed content to create_version.  A text is a sequence of     *)
(* characters here, so that str.strip() is computed.                        *)

MaxTextLen == 2

Chars == {" ", "a", "b"}
Texts == UNION {[1..n -> Chars] : n \in 0..MaxTextLen}
EmptyText == << >>

RECURSIVE lstrip(_)
(* str.lstrip() *)
lstrip(t) == IF t # << >> /\ Head(t) = " " THEN lstrip(Tail(t)) ELSE t

RECURSIVE rstrip(_)
(* str.rstrip() *)
rstrip(t) ==
    IF t # << >> /\ t[Len(t)] = " " THEN rstrip(SubSeq(t, 1, Len(t) - 1)) ELSE t

(* str.strip() *)
strip(t) == rstrip(lstrip(t))

(* The mappings yaml.safe_load gives for the staged files: empty, without   *)
(* content, with a content only, and with one content under the optional    *)
(* keys: temperature: 1, temperature: 1.0, temperature: 0.2, another name,  *)
(* tags and sampling parameters (only stored, so written as text)           *)
PromptFiles ==
    {<< >>, [name |-> "p"]}
    \cup {[content |-> t] : t \in Texts}
    \cup {[content |-> <<"a">>, temperature |-> x] :
              x \in {IntNum(1), FloatNum(10), FloatNum(2)}}
    \cup {[content |-> <<"a">>, name |-> "q", max_tokens |-> "256", top_p |-> "0.9",
           tags |-> <<"v1">>]}

(* parse_prompt_file: ValueError for an empty mapping and for a missing or  *)
(* empty content, else the stripped content, the six metadata keys with     *)
(* their defaults, and the tags                                             *)
parse_prompt_file(data, stem) ==
    IF DOMAIN data = {} \/ Get(data, "content", EmptyText) = EmptyText
    THEN [error |-> "ValueError"]
    ELSE [error    |-> "none",
          content  |-> strip(data.content),
          metadata |-> [name        |-> Get(data, "name", stem),
                        version     |-> Get(data, "version", "1.0.0"),
                        model       |-> Get(data, "model", "gpt-4"),
                        temperature |-> Get(data, "temperature", FloatNum(7)),
                        max_tokens  |-> Get(data, "max_tokens", "None"),
                        top_p       |-> Get(data, "top_p", "None")],
          tags     |-> Get(data, "tags", << >>)]

(* One iteration of commit_command's loop over the staged files *)
CommitCommand(data, stem, message, author) ==
    LET parsed == parse_prompt_file(data, stem) IN
    IF parsed.error # "none"
    THEN /\ lastOp' = [NoOp EXCEPT !.op = "commit", !.status = parsed.error,
                                   !.arg = [content |-> Get(data, "content", EmptyText)],
                                   !.pre = versions]
         /\ UNCHANGED <<versions, deployments, cache, clock, procs>>
    ELSE \E parent \in (IF versions = << >> THEN {NoId}
                        ELSE get_current_head(versions)) :
            Commit(parsed.content, parsed.metadata, parsed.tags, author, message,
                   parent)

FileCommitRequest ==
    /\ \E data \in PromptFiles, who \in {<<"initial", "alice">>, <<"again", "bob">>} :
          CommitCommand(data, "prompt", who[1], who[2])
    /\ Len(versions') <= MaxVersions

NextFiles == FileCommitRequest

SpecFiles == Init /\ [][NextFiles]_vars

----------------------------------------------------------------------------
(* History walks over stores whose nodes were committed under any parent a  *)
(* caller of create_version can name                                        *)

MaxHistoryVersions == 4
MaxLimit == 4

(* get_version_history, which reads and changes nothing *)
History(limit, start_from) ==
    /\ \E walk \in get_version_history(versions, limit, start_from) :
          lastOp' = [NoOp EXCEPT !.op = "history", !.status = "ok", !.ret = walk,
                                 !.arg = [limit |-> limit, start_from |-> start_from]]
    /\ UNCHANGED <<versions, deployments, cache, clock, procs>>

HistoryCommitRequest ==
    /\ \E c \in Contents, m \in {MetaFull, MetaCold},
          parent \in 0..(Len(versions) + 1) :
          Commit(c, m, <<"v1">>, "alice", "initial", parent)
    /\ Len(versions') <= MaxHistoryVersions

HistoryRequest ==
    \E limit \in 0..MaxLimit, start_from \in 0..(Len(versions) + 1) :
        History(limit, start_from)

NextHistory ==
    \/ HistoryCommitRequest
    \/ HistoryRequest

SpecHistory == Init /\ [][NextHistory]_vars

----------------------------------------------------------------------------
(* History walks under any limit an int can be, negative ones included *)

HistoryAnyLimitRequest ==
    \E limit \in (0 - MaxLimit)..MaxLimit, start_from \in 0..(Len(versions) + 1) :
        History(limit, start_from)

NextHistoryLimits ==
    \/ HistoryCommitRequest
    \/ HistoryAnyLimitRequest

SpecHistoryLimits == Init /\ [][NextHistoryLimits]_vars

----------------------------------------------------------------------------
(* Diffs of two stored versions whose contents are texts of short lines,    *)
(* with and without a newline at their end, some of them with a run of      *)
(* equal lines long enough to separate two hunks                            *)

MaxDiffLines == 2
MaxPad == 7

LineInputs == {<<"a">>, <<"b">>}

RECURSIVE JoinLines(_)
(* "\n".join(lines) *)
JoinLines(lines) ==
    IF lines = << >> THEN << >>
    ELSE IF Len(lines) = 1 THEN lines[1]
    ELSE lines[1] \o <<"\n">> \o JoinLines(Tail(lines))

DiffTexts ==
    LET short == UNION {[1..n -> LineInputs] : n \in 0..MaxDiffLines}
        edge == {<< >>} \cup {<<l>> : l \in LineInputs}
        padded == {x \o [i \in 1..MaxPad |-> <<"c">>] \o y : x, y \in edge} IN
    {JoinLines(ls) \o nl : ls \in short \cup padded, nl \in {<< >>, <<"\n">>}}

(* A store of two versions committed one after the other, of any two texts; *)
(* the second is of another temperature, so its hash is another even when   *)
(* the texts are equal                                                      *)
InitDiff ==
    /\ \E ta \in DiffTexts, tb \in DiffTexts :
          versions = InsertVersion(
              InsertVersion(<< >>, NewVersion(<< >>, 1, ta, MetaFull, <<"v1">>, "alice",
                                             "initial", NoId)),
              NewVersion(<< >>, 2, tb, MetaCold, <<"v2">>, "bob", "again", 1))
    /\ deployments = << >>
    /\ cache = << >>
    /\ clock = [v |-> 3, d |-> 1]
    /\ lastOp = NoOp
    /\ procs = [p \in Procs |-> IdleProc]

(* get_diff of two stored versions, which changes nothing *)
Diff(a, b) ==
    /\ lastOp' = [NoOp EXCEPT !.op = "diff", !.status = "ok",
                              !.ret = get_diff(versions[a], versions[b]),
                              !.arg = [a |-> a, b |-> b]]
    /\ UNCHANGED <<versions, deployments, cache, clock, procs>>

DiffRequest ==
    \E a \in DOMAIN versions, b \in DOMAIN versions : Diff(a, b)

NextDiff == DiffRequest

SpecDiff == InitDiff /\ [][NextDiff]_vars

----------------------------------------------------------------------------
(* The content store alone: commits that repeat a tuple under another       *)
(* parent, other tags, another author and message, and under metadata that  *)
(* differs only in keys compute_hash does not read                          *)

StoreCommitRequest ==
    /\ \E c \in Contents, who \in {<<MetaFull, <<"v1">>, "alice", "initial">>,
                                   <<MetaRenamed, <<"v2", "x">>, "bob", "again">>,
                                   <<MetaCold, <<"v1">>, "bob", "colder">>},
          parent \in 0..MaxVersions :
          Commit(c, who[1], who[2], who[3], who[4], parent)
    /\ Len(versions') <= MaxVersions

NextStore == StoreCommitRequest

SpecStore == Init /\ [][NextStore]_vars

----------------------------------------------------------------------------
(* Commits whose metadata leaves out keys that compute_hash reads: each of  *)
(* model, temperature and version is absent, given as compute_hash's        *)
(* default, or, one key at a time, given as another value                   *)

MaxDefaultsVersions == 2

ModelInputs == {"", "gpt-4"}
TemperatureInputs == {FloatNum(7), FloatNum(2)}
VersionInputs == {"1.0.0", "2.0.0"}

(* The defaults of compute_hash's metadata.get calls *)
HashDefaults == [model |-> "", temperature |-> FloatNum(7), version |-> "1.0.0"]

(* The dict with the keys of present, each with its value in full *)
Restrict(full, present) == [k \in present |-> full[k]]

PartialMetadata ==
    {Restrict([name |-> "p", model |-> m, temperature |-> t, version |-> v],
              {"name"} \cup present) :
        present \in SUBSET {"model", "temperature", "version"},
        m \in ModelInputs, t \in TemperatureInputs, v \in VersionInputs}

DefaultsCommitRequest ==
    /\ \E metadata \in PartialMetadata :
          /\ Cardinality({k \in DOMAIN metadata \ {"name"} :
                  metadata[k] # HashDefaults[k]}) <= 1
          /\ Commit("Summarize: {text}", metadata, <<"v1">>, "alice", "initial", NoId)
    /\ Len(versions') <= MaxDefaultsVersions

NextDefaults == DefaultsCommitRequest

SpecDefaults == Init /\ [][NextDefaults]_vars

----------------------------------------------------------------------------
(* Properties *)

(* Rows of an environment, and its active rows, read straight off a table *)
RowsIn(ds, e) == {i \in DOMAIN ds : ds[i].environment = e}
ActiveIn(ds, e) == {i \in RowsIn(ds, e) : ds[i].is_active}
ActiveVersions(ds, e) == {ds[i].version_id : i \in ActiveIn(ds, e)}

(* The rows of e with no later row of e, and with at most one later row *)
NewestIn(ds, e) ==
    {i \in RowsIn(ds, e) : \A j \in RowsIn(ds, e) : ds[j].deployed_at <= ds[i].deployed_at}
TopTwoIn(ds, e) ==
    {i \in RowsIn(ds, e) :
        Cardinality({j \in RowsIn(ds, e) : ds[j].deployed_at > ds[i].deployed_at}) < 2}

(* A table with every is_active flag cleared: what a rollback may not touch *)
Unflagged(ds) == [i \in DOMAIN ds |-> [ds[i] EXCEPT !.is_active = FALSE]]

(* C1: under every interleaving of overlapping deploy and rollback requests *)
(* on one environment, every committed state of the deployments table has   *)
(* at most one active row for the environment, and exactly one once a       *)
(* deploy or rollback on it has returned successfully.                      *)
C1_SingleActiveUnderConcurrency ==
    \A e \in EnvInputs :
        /\ Cardinality(ActiveIn(deployments, e)) <= 1
        /\ (\E p \in Procs : /\ procs[p].pc = "idle"
                             /\ procs[p].status = "ok"
                             /\ procs[p].env = e)
              => Cardinality(ActiveIn(deployments, e)) = 1

(* C2: with requests served one at a time, an environment has no active     *)
(* Deployment while it has no Deployment at all (no deploy to it has        *)
(* succeeded) and exactly one otherwise, and a deploy or rollback that      *)
(* fails leaves every environment's count of active rows as it was.         *)
C2_ActiveCount ==
    /\ \A e \in EnvInputs :
          Cardinality(ActiveIn(deployments, e)) =
              IF RowsIn(deployments, e) = {} THEN 0 ELSE 1
    /\ (lastOp.op \in {"deploy", "rollback"} /\ lastOp.status # "ok")
          => \A e \in EnvInputs :
                Cardinality(ActiveIn(deployments, e)) =
                    Cardinality(ActiveIn(lastOp.pre, e))

(* A rollback has just failed on an environment holding its one active row  *)
(* while the other environment holds two rows                               *)
C2_Witness ==
    /\ lastOp.op = "rollback"
    /\ lastOp.status = "NoPrevious"
    /\ Cardinality(ActiveIn(deployments, lastOp.env)) = 1
    /\ \E e \in EnvInputs : e # lastOp.env /\ Cardinality(RowsIn(deployments, e)) = 2

(* The two rows of e in ds, older first, when e has exactly two *)
OlderOfTwo(ds, e) ==
    CHOOSE i \in RowsIn(ds, e) : \A j \in RowsIn(ds, e) : ds[i].deployed_at <= ds[j].deployed_at
NewerOfTwo(ds, e) ==
    CHOOSE i \in RowsIn(ds, e) : \A j \in RowsIn(ds, e) : ds[j].deployed_at <= ds[i].deployed_at

(* rollback on an environment with exactly two Deployments D1, D2 and D2    *)
(* active makes D1 active and D2 inactive                                   *)
FirstRollbackOfTwo(e) ==
    (/\ lastOp.op = "rollback"
     /\ lastOp.env = e
     /\ Cardinality(RowsIn(lastOp.pre, e)) = 2
     /\ ActiveIn(lastOp.pre, e) = {NewerOfTwo(lastOp.pre, e)})
    => /\ lastOp.status = "ok"
       /\ Len(deployments) = Len(lastOp.pre)
       /\ ActiveIn(deployments, e) = {OlderOfTwo(lastOp.pre, e)}

(* the rollback after that one: D1 is active, D2 is not, no third row *)
SecondRollbackOfTwo(e) ==
    /\ lastOp.op = "rollback"
    /\ lastOp.env = e
    /\ Cardinality(RowsIn(lastOp.pre, e)) = 2
    /\ ActiveIn(lastOp.pre, e) = {OlderOfTwo(lastOp.pre, e)}

(* C3 as stated: the first rollback makes D1 active and D2 inactive, and a  *)
(* second rollback with no third Deployment fails with InvalidState and     *)
(* changes nothing.                                                         *)
C3_SecondRollbackFails ==
    \A e \in EnvInputs :
        /\ FirstRollbackOfTwo(e)
        /\ SecondRollbackOfTwo(e)
              => /\ lastOp.status \in {"NoActive", "NoPrevious"}
                 /\ deployments = lastOp.pre

(* C3 as amended: the first rollback makes D1 active and D2 inactive, and a *)
(* second rollback with no third Deployment succeeds and makes D2 active    *)
(* and D1 inactive again.                                                   *)
C3_SecondRollbackSwapsBack ==
    \A e \in EnvInputs :
        /\ FirstRollbackOfTwo(e)
        /\ SecondRollbackOfTwo(e)
              => /\ lastOp.status = "ok"
                 /\ Len(deployments) = Len(lastOp.pre)
                 /\ ActiveIn(deployments, e) = {NewerOfTwo(lastOp.pre, e)}

(* The second rollback on two Deployments has returned *)
C3_Witness ==
    \E e \in EnvInputs :
        /\ SecondRollbackOfTwo(e)
        /\ lastOp.status = "ok"
        /\ deployments[NewerOfTwo(deployments, e)].is_active

(* C4: a successful rollback on e adds and removes no row, changes nothing  *)
(* but is_active flags, leaves every row outside e's two most recent rows   *)
(* as it was, and moves the active flag from one of those two rows to the   *)
(* other; two successful rollbacks on e in a row restore the table that     *)
(* preceded the first.                                                      *)
C4_RollbackToggles ==
    [][(lastOp'.op = "rollback" /\ lastOp'.status = "ok") =>
        /\ Len(deployments') = Len(deployments)
        /\ Unflagged(deployments') = Unflagged(deployments)
        /\ \A i \in DOMAIN deployments :
              i \notin TopTwoIn(deployments, lastOp'.env)
                  => deployments'[i] = deployments[i]
        /\ Cardinality(ActiveIn(deployments, lastOp'.env)) = 1
        /\ ActiveIn(deployments', lastOp'.env) =
              TopTwoIn(deployments, lastOp'.env) \ ActiveIn(deployments, lastOp'.env)
        /\ Cardinality(ActiveIn(deployments', lastOp'.env)) = 1
        /\ (lastOp.op = "rollback" /\ lastOp.status = "ok" /\ lastOp.env = lastOp'.env)
              => deployments' = lastOp.pre
      ]_vars

(* A rollback has returned on an environment of three Deployments whose     *)
(* active row was not its newest: it follows another rollback, and it has   *)
(* made the newest row active again                                         *)
C4_Witness ==
    /\ lastOp.op = "rollback"
    /\ lastOp.status = "ok"
    /\ Cardinality(RowsIn(deployments, lastOp.env)) = 3
    /\ ActiveIn(lastOp.pre, lastOp.env) \cap NewestIn(lastOp.pre, lastOp.env) = {}
    /\ ActiveIn(deployments, lastOp.env) = NewestIn(deployments, lastOp.env)

(* A rollback of e right after a successful deploy to e, which had an       *)
(* active Deployment before that deploy                                     *)
RollbackAfterDeploy ==
    /\ lastOp.op = "deploy"
    /\ lastOp.status = "ok"
    /\ lastOp'.op = "rollback"
    /\ lastOp'.env = lastOp.env
    /\ ActiveIn(lastOp.pre, lastOp.env) # {}

(* C5 as stated: whatever happened earlier, a successful deploy to an       *)
(* environment whose active Deployment is of version V, immediately         *)
(* followed by a rollback, leaves V the version of the active Deployment.   *)
C5_DeployRollbackRestores ==
    [][RollbackAfterDeploy =>
        /\ lastOp'.status = "ok"
        /\ ActiveVersions(deployments', lastOp.env) = ActiveVersions(lastOp.pre, lastOp.env)
      ]_vars

(* C5 as amended: the same, for an environment whose active Deployment is   *)
(* its most recently deployed row (no rollback since its last deploy).      *)
C5_DeployRollbackRestoresNewest ==
    [][(/\ RollbackAfterDeploy
        /\ ActiveIn(lastOp.pre, lastOp.env) = NewestIn(lastOp.pre, lastOp.env)) =>
        /\ lastOp'.status = "ok"
        /\ ActiveVersions(deployments', lastOp.env) = ActiveVersions(lastOp.pre, lastOp.env)
      ]_vars

(* A rollback has undone the deploy of the third row of an environment: the *)
(* second row, of another version than the third, is active again           *)
C5_Witness ==
    /\ lastOp.op = "rollback"
    /\ lastOp.status = "ok"
    /\ Cardinality(RowsIn(deployments, lastOp.env)) = 3
    /\ ActiveIn(lastOp.pre, lastOp.env) = NewestIn(lastOp.pre, lastOp.env)
    /\ ActiveVersions(deployments, lastOp.env) # ActiveVersions(lastOp.pre, lastOp.env)
    /\ ActiveIn(deployments, lastOp.env) \cap NewestIn(deployments, lastOp.env) = {}

(* C6: rollback of an environment with no active Deployment fails with the  *)
(* 'no active deployment' error, rollback of an environment whose active    *)
(* Deployment is its only Deployment fails with the distinct 'no previous   *)
(* deployment' error, and a rollback that fails with either changes no      *)
(* Deployment row, leaves the cache as it was and invalidates nothing.      *)
C6_RollbackErrors ==
    [][lastOp'.op = "rollback" =>
        /\ ActiveIn(deployments, lastOp'.env) = {} => lastOp'.status = "NoActive"
        /\ (/\ ActiveIn(deployments, lastOp'.env) # {}
            /\ Cardinality(RowsIn(deployments, lastOp'.env)) = 1)
              => lastOp'.status = "NoPrevious"
        /\ lastOp'.status \in {"NoActive", "NoPrevious"}
              => /\ deployments' = deployments
                 /\ cache' = cache
                 /\ ~lastOp'.invalidated
      ]_vars

(* A rollback has failed for want of a previous Deployment while the cache  *)
(* holds a snapshot for that environment, and a rollback of the other       *)
(* environment would fail for want of an active one                         *)
C6_Witness ==
    /\ lastOp.op = "rollback"
    /\ lastOp.status = "NoPrevious"
    /\ \E n \in NameInputs : CacheKey(lastOp.env, n) \in DOMAIN cache
    /\ \E e \in EnvInputs : ActiveIn(deployments, e) = {}

(* C7: after a successful deploy(E, h, actor) the inserted Deployment       *)
(* references the version with hash h, environment E and actor and is       *)
(* active, every Deployment of E that was active before is inactive, and    *)
(* the store's query for the active deployment of E returns the new row.    *)
C7_DeployActivates ==
    (lastOp.op = "deploy" /\ lastOp.status = "ok") =>
        /\ Len(deployments) = Len(lastOp.pre) + 1
        /\ lastOp.ret = Len(deployments)
        /\ deployments[lastOp.ret].id = lastOp.ret
        /\ deployments[lastOp.ret].version_id \in DOMAIN versions
        /\ versions[deployments[lastOp.ret].version_id].hash = lastOp.arg.version_hash
        /\ deployments[lastOp.ret].environment = lastOp.env
        /\ deployments[lastOp.ret].deployed_by = lastOp.arg.deployed_by
        /\ deployments[lastOp.ret].is_active
        /\ \A i \in ActiveIn(lastOp.pre, lastOp.env) : ~deployments[i].is_active
        /\ LatestOf(deployments, ActiveRows(deployments, lastOp.env)) = {lastOp.ret}

(* bob has deployed the second version over the active Deployment of the    *)
(* first, which alice had deployed                                          *)
C7_Witness ==
    /\ lastOp.op = "deploy"
    /\ lastOp.status = "ok"
    /\ lastOp.arg.deployed_by = "bob"
    /\ \E i \in ActiveIn(lastOp.pre, lastOp.env) :
          /\ lastOp.pre[i].deployed_by = "alice"
          /\ lastOp.pre[i].version_id # deployments[lastOp.ret].version_id

(* C8: deploy with a hash that matches no stored version fails with         *)
(* NotFound and leaves every Deployment row, every is_active flag and the   *)
(* cache unchanged.                                                         *)
C8_DeployUnknownHash ==
    [][(/\ lastOp'.op = "deploy"
        /\ \A i \in DOMAIN versions : versions[i].hash # lastOp'.arg.version_hash) =>
        /\ lastOp'.status = "NotFound"
        /\ deployments' = deployments
        /\ cache' = cache
        /\ ~lastOp'.invalidated
      ]_vars

(* A deploy of an uncommitted hash has failed on an environment that has an *)
(* active Deployment and a cached snapshot                                  *)
C8_Witness ==
    /\ lastOp.op = "deploy"
    /\ lastOp.status = "NotFound"
    /\ versions # << >>
    /\ ActiveIn(deployments, lastOp.env) # {}
    /\ \E n \in NameInputs : CacheKey(lastOp.env, n) \in DOMAIN cache

(* C9: every successful deploy to E, one of the version that is already     *)
(* active in E included, adds exactly one Deployment row, to E; the new row *)
(* is the active one and the row that was active, of the same version or    *)
(* not, is inactive.                                                        *)
C9_DeployAppends ==
    (lastOp.op = "deploy" /\ lastOp.status = "ok") =>
        /\ Len(deployments) = Len(lastOp.pre) + 1
        /\ RowsIn(deployments, lastOp.env) =
              RowsIn(lastOp.pre, lastOp.env) \cup {Len(deployments)}
        /\ ActiveIn(deployments, lastOp.env) = {Len(deployments)}
        /\ \A i \in DOMAIN lastOp.pre :
              deployments[i] = [lastOp.pre[i] EXCEPT !.is_active =
                                   @ /\ lastOp.pre[i].environment # lastOp.env]

(* The version just deployed was already the active version of the          *)
(* environment                                                              *)
C9_Witness ==
    /\ lastOp.op = "deploy"
    /\ lastOp.status = "ok"
    /\ Len(deployments) = Len(lastOp.pre) + 1
    /\ \E i \in ActiveIn(lastOp.pre, lastOp.env) :
          /\ lastOp.pre[i].version_id = deployments[Len(deployments)].version_id
          /\ ~deployments[i].is_active

(* The tuple a commit is identified by, of a request and of a stored node *)
TupleOf(content, metadata) ==
    <<content, metadata.model, metadata.temperature, metadata.version>>
NodeTuple(v) == TupleOf(v.content, v.prompt_metadata)
SameTuple(vs, content, metadata) ==
    {i \in DOMAIN vs : NodeTuple(vs[i]) = TupleOf(content, metadata)}

(* C10: a commit whose (content, model, temperature, version) is that of a  *)
(* stored node returns that node, the one the first commit of the tuple     *)
(* created and returned, whatever its parent, tags, author and message, and *)
(* leaves the store as it was, so the node keeps the parent, tags, author   *)
(* and commit message of the first commit; no two nodes share a tuple or a  *)
(* hash.                                                                    *)
C10_CommitDedup ==
    /\ \A i, j \in DOMAIN versions :
          (NodeTuple(versions[i]) = NodeTuple(versions[j])
             \/ versions[i].hash = versions[j].hash) => i = j
    /\ (lastOp.op = "commit" /\ lastOp.status = "created") =>
          /\ versions = Append(lastOp.pre, versions[Len(versions)])
          /\ lastOp.ret = Len(versions)
          /\ versions[lastOp.ret].id = lastOp.ret
          /\ NodeTuple(versions[lastOp.ret]) =
                TupleOf(lastOp.arg.content, lastOp.arg.metadata)
          /\ versions[lastOp.ret].parent_id = lastOp.arg.parent_id
          /\ versions[lastOp.ret].tags = lastOp.arg.tags
          /\ versions[lastOp.ret].author = lastOp.arg.author
          /\ versions[lastOp.ret].prompt_metadata.commit_message = lastOp.arg.message
    /\ (/\ lastOp.op = "commit"
        /\ SameTuple(lastOp.pre, lastOp.arg.content, lastOp.arg.metadata) # {}) =>
          /\ lastOp.status = "existing"
          /\ SameTuple(lastOp.pre, lastOp.arg.content, lastOp.arg.metadata) = {lastOp.ret}
          /\ versions = lastOp.pre

(* The second commit of a tuple, under another parent, other tags, another  *)
(* author, another message and another name, has returned the first node    *)
C10_Witness ==
    /\ lastOp.op = "commit"
    /\ lastOp.status = "existing"
    /\ lastOp.ret \in DOMAIN versions
    /\ versions[lastOp.ret].parent_id # lastOp.arg.parent_id
    /\ lastOp.arg.parent_id \in DOMAIN versions
    /\ versions[lastOp.ret].tags # lastOp.arg.tags
    /\ versions[lastOp.ret].author # lastOp.arg.author
    /\ versions[lastOp.ret].prompt_metadata.commit_message # lastOp.arg.message
    /\ versions[lastOp.ret].prompt_metadata.name # lastOp.arg.metadata.name

(* C11: when two callers commit the same (content, model, temperature,      *)
(* version) with their existence checks and inserts interleaved in any      *)
(* order, neither call fails, both return the same node, and the store      *)
(* holds exactly one node of that tuple.                                    *)
C11_ConcurrentCommitDedup ==
    \A p, q \in Procs :
        (/\ p # q
         /\ procs[p].pc = "idle" /\ procs[p].op = "commit"
         /\ procs[q].pc = "idle" /\ procs[q].op = "commit"
         /\ TupleOf(procs[p].arg.content, procs[p].arg.metadata) =
               TupleOf(procs[q].arg.content, procs[q].arg.metadata))
        => /\ procs[p].status \in {"created", "existing"}
           /\ procs[q].status \in {"created", "existing"}
           /\ procs[p].ret = procs[q].ret
           /\ SameTuple(versions, procs[p].arg.content, procs[p].arg.metadata)
                 = {procs[p].ret}

(* C12: a commit (create_version) whose content is empty fails with a       *)
(* validation error before anything is persisted: it adds no node and       *)
(* leaves the store as it was, so no stored node has empty content.         *)
C12_EmptyContentRejected ==
    /\ \A i \in DOMAIN versions : versions[i].content # EmptyText
    /\ (lastOp.op = "commit" /\ lastOp.arg.content = EmptyText) =>
          /\ lastOp.status \notin {"created", "existing"}
          /\ versions = lastOp.pre

(* A request and a stored node have equal tuples: the same content, model   *)
(* and version and the same number as temperature                           *)
EqualTuple(content, metadata, v) ==
    /\ content = v.content
    /\ metadata.model = v.prompt_metadata.model
    /\ metadata.version = v.prompt_metadata.version
    /\ metadata.temperature.tenths = v.prompt_metadata.temperature.tenths

(* C13: the hash depends only on (content, model, temperature, version): a  *)
(* commit whose tuple equals that of a stored node resolves to that node    *)
(* and its hash and adds nothing, whatever the tags, author, commit         *)
(* message, timestamp and other metadata keys of the two commits, so no two *)
(* stored nodes have equal tuples.                                          *)
C13_HashOnlyTuple ==
    /\ \A i, j \in DOMAIN versions :
          EqualTuple(versions[i].content, versions[i].prompt_metadata, versions[j])
              => versions[i].hash = versions[j].hash /\ i = j
    /\ (lastOp.op = "commit" /\ lastOp.status \in {"created", "existing"}) =>
          \A i \in DOMAIN lastOp.pre :
              EqualTuple(lastOp.arg.content, lastOp.arg.metadata, lastOp.pre[i])
                  => /\ lastOp.status = "existing"
                     /\ lastOp.ret = i
                     /\ versions = lastOp.pre

(* C14: history started from any node of any reachable store terminates:    *)
(* every node's parent was stored before it, so no walk meets a node twice  *)
(* and a walk that the limit does not cut ends at a node without parent; it *)
(* returns at most limit nodes, the first of them the start node, and every *)
(* consecutive pair (x, y) of the result satisfies x.parent = y.            *)
C14_HistoryWalk ==
    /\ \A i \in DOMAIN versions : versions[i].parent_id \in 0..(i - 1)
    /\ lastOp.op = "history" =>
          /\ Len(lastOp.ret) <= lastOp.arg.limit
          /\ Len(lastOp.ret) <= Len(versions)
          /\ \A k \in DOMAIN lastOp.ret : lastOp.ret[k] \in DOMAIN versions
          /\ \A k, l \in DOMAIN lastOp.ret : lastOp.ret[k] = lastOp.ret[l] => k = l
          /\ \A k \in 1..(Len(lastOp.ret) - 1) :
                versions[lastOp.ret[k]].parent_id = lastOp.ret[k + 1]
          /\ (lastOp.arg.start_from \in DOMAIN versions /\ lastOp.arg.limit > 0)
                => lastOp.ret[1] = lastOp.arg.start_from
          /\ (lastOp.ret # << >> /\ Len(lastOp.ret) < lastOp.arg.limit)
                => versions[lastOp.ret[Len(lastOp.ret)]].parent_id = NoId

(* A walk of two nodes that started from a given node of a store of four,   *)
(* passed over a node that is not on its chain, and was cut by the limit    *)
(* before the root                                                          *)
C14_Witness ==
    /\ lastOp.op = "history"
    /\ Len(versions) = 4
    /\ lastOp.arg.start_from \in DOMAIN versions
    /\ lastOp.arg.limit = 2
    /\ Len(lastOp.ret) = 2
    /\ lastOp.ret[2] < lastOp.ret[1] - 1
    /\ versions[lastOp.ret[2]].parent_id # NoId

(* The cache keys under which a read of environment e stores a snapshot *)
KeysOf(e) == {CacheKey(e, n) : n \in NameInputs}

(* ret is the snapshot of Deployment d of table ds *)
IsSnapshotOf(ret, vs, ds, d) ==
    /\ ret.content = vs[ds[d].version_id].content
    /\ ret.hash = vs[ds[d].version_id].hash
    /\ ret.version = vs[ds[d].version_id].prompt_metadata.version
    /\ ret.model = vs[ds[d].version_id].prompt_metadata.model
    /\ ret.temperature.tenths = vs[ds[d].version_id].prompt_metadata.temperature.tenths
    /\ ret.metadata = vs[ds[d].version_id].prompt_metadata
    /\ ret.tags = vs[ds[d].version_id].tags
    /\ ret.deployed_at = ds[d].deployed_at
    /\ ret.environment = ds[d].environment

(* C15: with requests served one at a time (no read overlaps the            *)
(* operation) and the cache reachable, when a deploy or rollback on E has   *)
(* returned successfully the cache holds no entry for E under any name, and *)
(* a getActivePrompt(E, any name) that comes next returns the snapshot of   *)
(* the Deployment that is now active.                                       *)
C15_InvalidatedOnSuccess ==
    [][/\ (/\ lastOp'.op \in {"deploy", "rollback"}
           /\ lastOp'.status = "ok"
           /\ lastOp'.failed = {})
          => KeysOf(lastOp'.env) \cap DOMAIN cache' = {}
       /\ (/\ lastOp.op \in {"deploy", "rollback"}
           /\ lastOp.status = "ok"
           /\ lastOp.failed = {}
           /\ lastOp'.op = "read"
           /\ lastOp'.env = lastOp.env)
          => /\ lastOp'.status \in {"hit", "miss"}
             /\ \E d \in ActiveIn(deployments, lastOp.env) :
                   IsSnapshotOf(lastOp'.ret, versions, deployments, d)
      ]_vars

(* The table a deploy of version v to e by actor at time now leaves, and    *)
(* the table a rollback of e leaves, read off the table ds alone            *)
DeployedTable(ds, e, v, actor, now) ==
    Append([i \in DOMAIN ds |->
               IF ds[i].environment = e THEN [ds[i] EXCEPT !.is_active = FALSE]
               ELSE ds[i]],
           [id |-> Len(ds) + 1, version_id |-> v, environment |-> e,
            deployed_by |-> actor, deployed_at |-> now, is_active |-> TRUE])
RolledBackTable(ds, e) ==
    [i \in DOMAIN ds |->
        IF i \in ActiveIn(ds, e) THEN [ds[i] EXCEPT !.is_active = FALSE]
        ELSE IF i \in NewestIn([j \in DOMAIN ds |->
                                   IF j \in ActiveIn(ds, e)
                                   THEN [ds[j] EXCEPT !.environment = "none"]
                                   ELSE ds[j]], e)
             THEN [ds[i] EXCEPT !.is_active = TRUE]
             ELSE ds[i]]

(* C16: when the cache is unreachable at construction of the cache          *)
(* component, or a cache get, set or delete fails, deploy, rollback and     *)
(* getActivePrompt complete with the result and the store state they have   *)
(* with an empty working cache: the lookup is a miss and the read returns   *)
(* the store's snapshot or NotFound, a failed populate or invalidate leaves *)
(* the cache as it was, deploy and rollback succeed and write what the      *)
(* store alone determines, and no status reports the cache failure.         *)
C16_CacheFailuresAbsorbed ==
    [][lastOp'.failed # {} =>
        /\ versions' = versions
        /\ lastOp'.op \in {"read", "deploy", "rollback"}
        /\ lastOp'.op = "read" =>
              /\ deployments' = deployments
              /\ "get" \in lastOp'.failed => lastOp'.status # "hit"
              /\ lastOp'.status \in {"hit", "miss", "NotFound"}
              /\ lastOp'.status # "hit" =>
                    IF ActiveIn(deployments, lastOp'.env) = {}
                    THEN lastOp'.status = "NotFound" /\ cache' = cache
                    ELSE /\ lastOp'.status = "miss"
                         /\ \E d \in ActiveIn(deployments, lastOp'.env) :
                               IsSnapshotOf(lastOp'.ret, versions, deployments, d)
              /\ "set" \in lastOp'.failed => cache' = cache
        /\ lastOp'.op = "deploy" =>
              /\ lastOp'.status = "ok"
              /\ cache' = cache
              /\ \E v \in DOMAIN versions :
                    /\ versions[v].hash = lastOp'.arg.version_hash
                    /\ deployments' = DeployedTable(deployments, lastOp'.env, v,
                                           lastOp'.arg.deployed_by, clock.d)
        /\ lastOp'.op = "rollback" =>
              /\ lastOp'.status = "ok"
              /\ cache' = cache
              /\ deployments' = RolledBackTable(deployments, lastOp'.env)
      ]_vars

(* A read whose GET and SETEX both failed has returned the snapshot of the  *)
(* active Deployment while the cache, which a failed invalidation left      *)
(* behind, still holds an older snapshot under the read's key               *)
C16_Witness ==
    /\ lastOp.op = "read"
    /\ lastOp.failed = {"get", "set"}
    /\ lastOp.status = "miss"
    /\ CacheKey(lastOp.env, lastOp.arg.name) \in DOMAIN cache
    /\ parse_datetime(cache[CacheKey(lastOp.env, lastOp.arg.name)].value.deployed_at)
          < lastOp.ret.deployed_at

(* Every cached snapshot of e, and every snapshot a read of e is about to   *)
(* populate the cache with, is that of an active Deployment of e            *)
NothingStale(e) ==
    /\ \A k \in KeysOf(e) \cap DOMAIN cache :
          \E d \in ActiveIn(deployments, e) :
              IsSnapshotOf(PromptResponseOf(cache[k].value), versions, deployments, d)
    /\ \A p \in Procs :
          (procs[p].pc = "populate" /\ procs[p].env = e) =>
              \E d \in ActiveIn(deployments, e) :
                  IsSnapshotOf(procs[p].row, versions, deployments, d)

(* C17: no cache entry outlives the TTL of its population, and if deploys   *)
(* and rollbacks on E stop committing then from some time on the cache      *)
(* holds, and reads populate, only the snapshot of the store's active       *)
(* Deployment, so every getActivePrompt(E) returns it, even after a lost    *)
(* invalidation or a racing read that repopulated a stale snapshot.         *)
C17_FreshWithinTTL ==
    /\ [](\A k \in DOMAIN cache : cache[k].ttl \in 1..DefaultTTL)
    /\ ([]<><<deployments' # deployments>>_vars) \/ <>[]NothingStale("prod")

(* Both handlers have returned, and the cache holds a snapshot of prod that *)
(* is no longer the active Deployment's and has one unit of time to live    *)
C17_Witness ==
    /\ \A p \in Procs : procs[p].pc = "idle"
    /\ ActiveIn(deployments, "prod") # {}
    /\ \E k \in KeysOf("prod") \cap DOMAIN cache :
          /\ cache[k].ttl = 1
          /\ \A d \in ActiveIn(deployments, "prod") :
                parse_datetime(cache[k].value.deployed_at) # deployments[d].deployed_at

(* The most recently deployed of the active rows of e *)
NewestActiveIn(ds, e) ==
    {i \in ActiveIn(ds, e) :
        \A j \in ActiveIn(ds, e) : ds[j].deployed_at <= ds[i].deployed_at}

(* The key (E, name or "default") as text *)
KeyFor(e, n) ==
    <<"promptops:prompt:">> \o Explode(e) \o <<":">>
        \o (IF n = NoName THEN Explode("default") ELSE Explode(n))

C19_ReadNotFound ==
    [][(/\ lastOp'.op = "read"
        /\ KeyFor(lastOp'.env, lastOp'.arg.name) \notin DOMAIN cache
        /\ ActiveIn(deployments, lastOp'.env) = {}) =>
        /\ lastOp'.status = "NotFound"
        /\ cache' = cache
        /\ versions' = versions
        /\ deployments' = deployments
      ]_vars

(* A read of an environment that was never deployed to has returned         *)
(* NotFound while the other environment has an active Deployment and a      *)
(* cached snapshot                                                          *)
C19_Witness ==
    /\ lastOp.op = "read"
    /\ lastOp.status = "NotFound"
    /\ RowsIn(deployments, lastOp.env) = {}
    /\ \E e \in EnvInputs :
          /\ e # lastOp.env
          /\ ActiveIn(deployments, e) # {}
          /\ KeyFor(e, NoName) \in DOMAIN cache

(* C20: across every sequence of commit, deploy, rollback and read          *)
(* operations no stored VersionNode is deleted, and the id, hash, content,  *)
(* metadata, tags, author and parent of a stored node never change.         *)
C20_VersionsImmutable ==
    [][/\ Len(versions') >= Len(versions)
       /\ \A i \in DOMAIN versions :
             /\ versions'[i].id = versions[i].id
             /\ versions'[i].hash = versions[i].hash
             /\ versions'[i].content = versions[i].content
             /\ versions'[i].prompt_metadata = versions[i].prompt_metadata
             /\ versions'[i].tags = versions[i].tags
             /\ versions'[i].author = versions[i].author
             /\ versions'[i].parent_id = versions[i].parent_id
      ]_vars

(* A read has been served from the cache of a store in which a second node  *)
(* was committed on top of the first, both were deployed to one             *)
(* environment, and a rollback has made the older Deployment active again   *)
C20_Witness ==
    /\ lastOp.op = "read"
    /\ lastOp.status = "hit"
    /\ Len(versions) = 2
    /\ versions[2].parent_id = 1
    /\ Cardinality(RowsIn(deployments, lastOp.env)) = 2
    /\ ActiveVersions(deployments, lastOp.env) # {}
    /\ ActiveIn(deployments, lastOp.env) \cap NewestIn(deployments, lastOp.env) = {}
    /\ \E i, j \in RowsIn(deployments, lastOp.env) :
          deployments[i].version_id # deployments[j].version_id

(* C21: every Deployment row ever created has an environment of the fixed   *)
(* set {dev, staging, prod}; a deploy request that names any other          *)
(* environment is rejected and creates or changes no Deployment row.        *)
C21_EnvironmentFixedSet ==
    /\ \A i \in DOMAIN deployments :
          deployments[i].environment \in {"dev", "staging", "prod"}
    /\ (lastOp.op = "deploy" /\ lastOp.env \notin {"dev", "staging", "prod"}) =>
          /\ lastOp.status # "ok"
          /\ deployments = lastOp.pre

(* The lines of a text, each with its line ending, read off the positions   *)
(* of its newlines                                                          *)
LinesOf(t) ==
    LET ends == {k \in DOMAIN t : t[k] = "\n" \/ k = Len(t)}
        nth(i) == CHOOSE k \in ends : Cardinality({e \in ends : e < k}) = i - 1 IN
    [i \in 1..Cardinality(ends) |->
        SubSeq(t, IF i = 1 THEN 1 ELSE nth(i - 1) + 1, nth(i))]

RECURSIVE TextOf(_)
(* The text that a sequence of lines is *)
TextOf(lines) == IF lines = << >> THEN << >> ELSE Head(lines) \o TextOf(Tail(lines))

(* The number a hunk header prints, and the ranges "-start,length" and      *)
(* "+start,length" of a header line, a length left out being 1              *)
NumberOf(token) == CHOOSE n \in 0..99 : ToString(n) = token
OldRange(h) ==
    IF h[5] = "," THEN <<NumberOf(h[4]), NumberOf(h[6])>> ELSE <<NumberOf(h[4]), 1>>
NewRange(h) ==
    LET plus == IF h[5] = "," THEN 8 ELSE 6 IN
    IF h[plus + 2] = ","
    THEN <<NumberOf(h[plus + 1]), NumberOf(h[plus + 3])>>
    ELSE <<NumberOf(h[plus + 1]), 1>>

RECURSIVE HunkBody(_, _, _, _)
(* The lines of the diff d from position k on that make up a hunk of olds   *)
(* old and news new lines: the old lines it expects, the new lines it       *)
(* gives, and the position after it                                         *)
HunkBody(d, k, olds, news) ==
    IF (olds = 0 /\ news = 0) \/ k > Len(d)
    THEN [old |-> << >>, new |-> << >>, next |-> k, complete |-> olds = 0 /\ news = 0]
    ELSE LET tag == Head(d[k])
             line == Tail(d[k])
             rest == HunkBody(d, k + 1,
                              IF tag \in {" ", "-"} THEN olds - 1 ELSE olds,
                              IF tag \in {" ", "+"} THEN news - 1 ELSE news) IN
         [rest EXCEPT !.old = IF tag \in {" ", "-"} THEN <<line>> \o @ ELSE @,
                      !.new = IF tag \in {" ", "+"} THEN <<line>> \o @ ELSE @,
                      !.complete = @ /\ tag \in {" ", "-", "+"}]

RECURSIVE PatchFrom(_, _, _, _)
(* The hunks of d from position k on applied to the lines old, of which pos *)
(* are already copied or replaced: the lines up to the hunk are copied, the *)
(* hunk's old lines must be the ones found there and its new lines take     *)
(* their place                                                              *)
PatchFrom(old, d, k, pos) ==
    IF k > Len(d)
    THEN [lines |-> SubSeq(old, pos + 1, Len(old)), clean |-> TRUE]
    ELSE LET range == OldRange(d[k])
             start == IF range[2] = 0 THEN range[1] ELSE range[1] - 1
             body == HunkBody(d, k + 1, range[2], NewRange(d[k])[2])
             rest == PatchFrom(old, d, body.next, start + range[2]) IN
         [lines |-> SubSeq(old, pos + 1, start) \o body.new \o rest.lines,
          clean |-> /\ Head(d[k]) = "@@"
                    /\ pos <= start
                    /\ start + range[2] <= Len(old)
                    /\ body.complete
                    /\ body.old = SubSeq(old, start + 1, start + range[2])
                    /\ rest.clean]

(* A unified diff applied to a text: an empty diff leaves it as it is, else *)
(* the hunks follow the two file lines                                      *)
Patch(text, d) ==
    IF d = << >>
    THEN [text |-> text, clean |-> TRUE]
    ELSE [text  |-> TextOf(PatchFrom(LinesOf(text), d, 3, 0).lines),
          clean |-> Len(d) >= 3 /\ PatchFrom(LinesOf(text), d, 3, 0).clean]

(* C22: for any two versions A and B, the unified diff that diff(A, B)      *)
(* returns applies to A's content, and applying it gives B's content        *)
(* exactly.                                                                 *)
C22_DiffRoundTrip ==
    lastOp.op = "diff" =>
        /\ Patch(versions[lastOp.arg.a].content, lastOp.ret.diff_lines).clean
        /\ Patch(versions[lastOp.arg.a].content, lastOp.ret.diff_lines).text
              = versions[lastOp.arg.b].content

(* A diff of two hunks has been returned, one of whose added lines has no   *)
(* newline at its end while the line it replaces has one                    *)
C22_Witness ==
    /\ lastOp.op = "diff"
    /\ Cardinality({k \in DOMAIN lastOp.ret.diff_lines :
                       Head(lastOp.ret.diff_lines[k]) = "@@"}) = 2
    /\ \E k \in 4..Len(lastOp.ret.diff_lines) :
          /\ Head(lastOp.ret.diff_lines[k]) = "+"
          /\ lastOp.ret.diff_lines[k][Len(lastOp.ret.diff_lines[k])] # "\n"
          /\ Head(lastOp.ret.diff_lines[k - 1]) = "-"
          /\ lastOp.ret.diff_lines[k - 1][Len(lastOp.ret.diff_lines[k - 1])] = "\n"

(* C23: once an environment has had one successful deploy, no read of its   *)
(* active Deployment from the store, one that falls between the steps of an *)
(* overlapping deploy or rollback included, finds no active Deployment.     *)
C23_ReadNeverFindsNone ==
    [][\A p \in Procs :
          (/\ procs'[p] # procs[p]
           /\ procs'[p].op = "read"
           /\ procs'[p].status = "NotFound")
          => RowsIn(deployments, procs'[p].env) = {}
      ]_vars

(* The step is the commit of handler p and writes everything its session    *)
(* holds: each is_active assignment and, for a deploy, the row it built     *)
CommitsAllOf(p) ==
    /\ procs[p].pc \in {"deploy_commit", "rollback_commit"}
    /\ procs'[p].pc = "invalidate"
    /\ \A w \in procs[p].writes : deployments'[w[1]].is_active = w[2]
    /\ \A i \in DOMAIN deployments :
          /\ Unflagged(deployments')[i] = Unflagged(deployments)[i]
          /\ (\A w \in procs[p].writes : w[1] # i) => deployments'[i] = deployments[i]
    /\ IF procs[p].op = "deploy"
       THEN /\ Len(deployments') = Len(deployments) + 1
            /\ deployments'[Len(deployments')] =
                  [procs[p].row EXCEPT !.id = Len(deployments')]
       ELSE Len(deployments') = Len(deployments)

(* C24: a deploy or rollback that fails or is abandoned before its          *)
(* transaction commits leaves the store as it was: no row deactivated,      *)
(* inserted or flipped; the store changes only in the commit of a request,  *)
(* which writes all that the request holds, so no part of a request's       *)
(* writes is ever visible without the rest.                                 *)
C24_AllOrNothing ==
    [][/\ \A p \in Procs :
             (/\ procs'[p] # procs[p]
              /\ procs'[p].pc = "idle"
              /\ procs'[p].status # "ok")
             => /\ deployments' = deployments
                /\ procs'[p].writes = {}
                /\ procs'[p].row = << >>
       /\ deployments' # deployments => \E p \in Procs : CommitsAllOf(p)
      ]_vars

(* A deploy that had drawn its timestamp and a rollback have both been      *)
(* abandoned, and the one Deployment of the environment is still active     *)
C24_Witness ==
    /\ \E p, q \in Procs :
          /\ procs[p].status = "abandoned" /\ procs[p].op = "deploy"
          /\ procs[q].status = "abandoned" /\ procs[q].op = "rollback"
    /\ Len(deployments) = 1
    /\ deployments[1].is_active
    /\ clock.d = 3

(* C25: when two deploys, or a deploy and a rollback, of one environment    *)
(* overlap and both commit, the environment's active Deployment after the   *)
(* later commit is the one that commit established, and the row that the    *)
(* earlier commit activated is inactive.                                    *)
C25_LastCommitWins ==
    [][\A p, q \in Procs :
          (/\ p # q
           /\ procs[q].pc = "invalidate"
           /\ procs[p].pc \in {"deploy_commit", "rollback_commit"}
           /\ procs'[p].pc = "invalidate"
           /\ procs[p].env = procs[q].env)
          => /\ procs[p].op = "deploy"
                   => ActiveIn(deployments', procs[p].env) = {Len(deployments')}
             /\ procs[p].op = "rollback"
                   => \A w \in procs[p].writes :
                          w[2] => ActiveIn(deployments', procs[p].env) = {w[1]}
             /\ procs[q].op = "deploy"
                   => ~deployments'[procs[q].current].is_active
      ]_vars

(* The rows of e other than row c that no other such row was deployed after *)
NewestOtherIn(ds, e, c) ==
    {i \in RowsIn(ds, e) \ {c} :
        \A j \in RowsIn(ds, e) \ {c} : ds[j].deployed_at <= ds[i].deployed_at}

(* C26: rollback(E) activates the Deployment with the greatest deployed_at  *)
(* among the rows of E other than the current active row, whether or not    *)
(* that row was the active one before the current one, deactivates the      *)
(* current row and leaves every other row as it was; it succeeds whenever   *)
(* E has an active row and another row.                                     *)
C26_RollbackTarget ==
    [][\A c \in ActiveIn(deployments, lastOp'.env) :
          (/\ lastOp'.op = "rollback"
           /\ RowsIn(deployments, lastOp'.env) # {c})
          => /\ lastOp'.status = "ok"
             /\ ActiveIn(deployments, lastOp'.env) = {c}
             /\ NewestOtherIn(deployments, lastOp'.env, c) = {lastOp'.ret}
             /\ deployments' = [i \in DOMAIN deployments |->
                                   [deployments[i] EXCEPT !.is_active =
                                       IF i = c THEN FALSE
                                       ELSE IF i = lastOp'.ret THEN TRUE
                                       ELSE @]]
      ]_vars

(* A rollback of an environment of three Deployments whose newest was       *)
(* active has activated the second and left the first, inactive, and the    *)
(* rows of the other environment as they were                               *)
C26_Witness ==
    /\ lastOp.op = "rollback"
    /\ lastOp.status = "ok"
    /\ Cardinality(RowsIn(deployments, lastOp.env)) = 3
    /\ ActiveIn(lastOp.pre, lastOp.env) = NewestIn(lastOp.pre, lastOp.env)
    /\ lastOp.ret \notin NewestIn(deployments, lastOp.env)
    /\ \E i \in RowsIn(deployments, lastOp.env) :
          /\ deployments[i].deployed_at < deployments[lastOp.ret].deployed_at
          /\ ~deployments[i].is_active
          /\ deployments[i] = lastOp.pre[i]

(* C27: deploy(E, ...) and rollback(E), successful or not, leave every      *)
(* Deployment row of every other environment, its is_active flag included,  *)
(* as it was and add no row to another environment, so the active row of    *)
(* every other environment stays the same.                                  *)
C27_OtherEnvironmentsUntouched ==
    [][lastOp'.op \in {"deploy", "rollback"} =>
        /\ \A i \in DOMAIN deployments :
              deployments[i].environment # lastOp'.env
                  => /\ i \in DOMAIN deployments'
                     /\ deployments'[i] = deployments[i]
        /\ \A i \in DOMAIN deployments' \ DOMAIN deployments :
              deployments'[i].environment = lastOp'.env
        /\ \A e \in EnvInputs \ {lastOp'.env} :
              ActiveIn(deployments', e) = ActiveIn(deployments, e)
      ]_vars

(* A rollback has flipped two rows of one environment while the other       *)
(* environment's one Deployment, deployed between those two, is active      *)
C27_Witness ==
    /\ lastOp.op = "rollback"
    /\ lastOp.status = "ok"
    /\ \E e \in EnvInputs \ {lastOp.env} : \E i \in ActiveIn(deployments, e) :
          /\ i \in ActiveIn(lastOp.pre, e)
          /\ \E j, k \in RowsIn(deployments, lastOp.env) :
                deployments[j].deployed_at < deployments[i].deployed_at
                    /\ deployments[i].deployed_at < deployments[k].deployed_at

(* C28: in every reachable state of the store, while callers commit the     *)
(* same content with their existence queries and inserts interleaved, no    *)
(* two VersionNodes have the same hash; the insert of a row whose hash a    *)
(* committed row already has is rejected and adds no row.                   *)
C28_HashUnique ==
    /\ [](\A i, j \in DOMAIN versions :
              versions[i].hash = versions[j].hash => i = j)
    /\ [][\A p \in Procs :
             (/\ procs[p].pc = "commit_insert"
              /\ procs'[p] # procs[p]
              /\ \E i \in DOMAIN versions : versions[i].hash = procs[p].row.hash)
             => /\ versions' = versions
                /\ procs'[p].status = "IntegrityError"]_vars

(* An insert was rejected: the caller's existence query found no row, and   *)
(* the row of its hash was committed by another caller before its insert    *)
C28_Witness ==
    \E p, q \in Procs :
        /\ p # q
        /\ procs[p].pc = "idle" /\ procs[p].op = "commit"
        /\ procs[p].status = "IntegrityError"
        /\ procs[q].pc = "idle" /\ procs[q].op = "commit"
        /\ procs[q].status = "created"
        /\ versions[procs[q].ret].hash =
              compute_hash(procs[p].arg.content, procs[p].arg.metadata)
        /\ Cardinality({i \in DOMAIN versions :
              versions[i].hash = versions[procs[q].ret].hash}) = 1

(* The last commit found no node of its hash in the store *)
CommitOfNewHash ==
    /\ lastOp.op = "commit"
    /\ \A i \in DOMAIN lastOp.pre :
          lastOp.pre[i].hash # compute_hash(lastOp.arg.content, lastOp.arg.metadata)

(* The last commit added one node, built from its arguments, after the      *)
(* nodes the store had, left those as they were, and returned the new node  *)
CommitAddedItsNode ==
    /\ lastOp.status = "created"
    /\ Len(versions) = Len(lastOp.pre) + 1
    /\ \A i \in DOMAIN lastOp.pre : versions[i] = lastOp.pre[i]
    /\ lastOp.ret = Len(versions)
    /\ versions[lastOp.ret].id = lastOp.ret
    /\ versions[lastOp.ret].content = lastOp.arg.content
    /\ versions[lastOp.ret].hash =
          compute_hash(lastOp.arg.content, lastOp.arg.metadata)
    /\ versions[lastOp.ret].parent_id = lastOp.arg.parent_id
    /\ versions[lastOp.ret].tags = lastOp.arg.tags
    /\ versions[lastOp.ret].author = lastOp.arg.author
    /\ DOMAIN versions[lastOp.ret].prompt_metadata =
          DOMAIN lastOp.arg.metadata \cup {"commit_message"}
    /\ versions[lastOp.ret].prompt_metadata.commit_message = lastOp.arg.message
    /\ \A k \in DOMAIN lastOp.arg.metadata \ {"commit_message"} :
          versions[lastOp.ret].prompt_metadata[k] = lastOp.arg.metadata[k]

(* C29, as stated: a commit of content whose hash is not in the store adds  *)
(* exactly one node, of the computed hash, the supplied parent (or none),   *)
(* the supplied tags and author, and the supplied metadata plus             *)
(* commit_message = message, returns it, and changes no other node.         *)
C29_CommitCreates ==
    CommitOfNewHash => CommitAddedItsNode

(* C29, amended: a commit of content whose hash is not in the store, under  *)
(* no parent or under the id of a stored node, adds exactly one node, of    *)
(* the computed hash, that parent, the supplied tags and author, and the    *)
(* supplied metadata plus commit_message = message, returns it, and changes *)
(* no other node; under a parent id that names no stored node the insert    *)
(* fails on the foreign key and the store stays as it was.                  *)
C29_CommitCreatesUnderStoredParent ==
    CommitOfNewHash =>
        IF ParentExists(lastOp.pre, lastOp.arg.parent_id)
        THEN CommitAddedItsNode
        ELSE /\ lastOp.status = "IntegrityError"
             /\ versions = lastOp.pre

(* A second node was committed under the first as its parent, with two tags *)
(* and a metadata key more than the first                                   *)
C29_Witness ==
    /\ CommitOfNewHash
    /\ lastOp.status = "created"
    /\ Len(lastOp.pre) = 1
    /\ lastOp.arg.parent_id = 1
    /\ Len(lastOp.arg.tags) = 2
    /\ "max_tokens" \in DOMAIN versions[lastOp.ret].prompt_metadata
    /\ versions[lastOp.ret].author # versions[1].author

RECURSIVE ParentChain(_, _)
(* The parent chain that begins at node i: i, its parent, that node's       *)
(* parent, up to the first node without parent                              *)
ParentChain(vs, i) ==
    IF vs[i].parent_id = NoId
    THEN <<i>>
    ELSE <<i>> \o ParentChain(vs, vs[i].parent_id)

(* The start node of the last history call: the node of id start_from, the  *)
(* node created last when start_from is omitted, NoId when there is none    *)
StartNode ==
    IF lastOp.arg.start_from = NoId
    THEN Len(versions)
    ELSE IF lastOp.arg.start_from \in DOMAIN versions
         THEN lastOp.arg.start_from
         ELSE NoId

(* C30: history(startId, limit) returns the first min(limit, n) nodes of    *)
(* the parent chain of n nodes that begins at the start node, the node of   *)
(* id startId or the node created last when startId is omitted; it returns  *)
(* the empty sequence, and does not raise, for an unknown startId, for an   *)
(* empty store and for limit <= 0; the call changes no state.               *)
C30_HistoryPrefix ==
    /\ [](lastOp.op = "history" =>
            /\ lastOp.status = "ok"
            /\ IF StartNode = NoId \/ lastOp.arg.limit <= 0
               THEN lastOp.ret = << >>
               ELSE lastOp.ret =
                      SubSeq(ParentChain(versions, StartNode), 1,
                             min(lastOp.arg.limit,
                                 Len(ParentChain(versions, StartNode)))))
    /\ [][lastOp'.op = "history" =>
            /\ versions' = versions
            /\ deployments' = deployments
            /\ cache' = cache]_vars

(* With startId omitted, a walk of two nodes from the node created last, in *)
(* a store of four whose chain from there has three, cut by the limit       *)
C30_Witness ==
    /\ lastOp.op = "history"
    /\ lastOp.arg.start_from = NoId
    /\ lastOp.arg.limit = 2
    /\ Len(versions) = 4
    /\ Len(ParentChain(versions, 4)) = 3
    /\ lastOp.ret = <<4, versions[4].parent_id>>
    /\ versions[4].parent_id # 3

RECURSIVE AncestorsWithin(_, _, _)
(* The nodes met in at most k steps along parent references from node i,    *)
(* i itself not counted unless a step leads back to it                      *)
AncestorsWithin(vs, i, k) ==
    IF k = 0 \/ i \notin DOMAIN vs \/ vs[i].parent_id = NoId
    THEN {}
    ELSE {vs[i].parent_id} \cup AncestorsWithin(vs, vs[i].parent_id, k - 1)

(* C31: in every reachable state of the store, whatever parent ids the      *)
(* callers of commit supply, the parent of each VersionNode is absent or is *)
(* a stored node created before it, and no node is its own ancestor: the    *)
(* parent relation is a forest.                                             *)
C31_ParentForest ==
    \A i \in DOMAIN versions :
        /\ versions[i].parent_id # NoId =>
              /\ versions[i].parent_id \in DOMAIN versions
              /\ versions[versions[i].parent_id].timestamp < versions[i].timestamp
        /\ i \notin AncestorsWithin(versions, i, Len(versions))

(* Two nodes were committed under one parent, and a commit under an id that *)
(* names no node was then rejected                                          *)
C31_Witness ==
    /\ Len(versions) = 3
    /\ versions[2].parent_id = 1
    /\ versions[3].parent_id = 1
    /\ lastOp.op = "commit"
    /\ lastOp.status = "IntegrityError"
    /\ lastOp.arg.parent_id \notin DOMAIN versions
    /\ lastOp.pre = versions

(* Handler p takes the step from position pc to the end of its request *)
Returns(p, pc) == procs[p].pc = pc /\ procs'[p].pc = "idle"

(* C32: a getActivePrompt on E that has read the store populates the cache  *)
(* with the snapshot it read, whatever a deploy or rollback on E has        *)
(* committed and invalidated since the read, so a snapshot read before the  *)
(* commit and stored after the invalidation stays in the cache when the     *)
(* operation has returned; a later lookup of the key is a hit that serves   *)
(* the cached snapshot whatever the store holds; and an entry leaves the    *)
(* cache only when its time to live ends, when an invalidation removes it,  *)
(* or when a read's populate replaces it.                                   *)
C32_StalePopulateServed ==
    [][/\ \A p \in Procs : Returns(p, "populate") =>
             /\ KeyFor(procs[p].env, procs[p].arg.name) \in DOMAIN cache'
             /\ PromptResponseOf(
                   cache'[KeyFor(procs[p].env, procs[p].arg.name)].value)
                      = procs[p].row
             /\ cache'[KeyFor(procs[p].env, procs[p].arg.name)].ttl = DefaultTTL
       /\ \A p \in Procs :
             (/\ procs[p].pc = "idle" /\ procs'[p] # procs[p]
              /\ procs'[p].op = "read"
              /\ KeyFor(procs'[p].env, procs'[p].arg.name) \in DOMAIN cache)
             => /\ procs'[p].status = "hit"
                /\ procs'[p].ret = PromptResponseOf(
                      cache[KeyFor(procs'[p].env, procs'[p].arg.name)].value)
                /\ cache' = cache
       /\ \A k \in DOMAIN cache :
             (k \notin DOMAIN cache' \/ cache'[k].value # cache[k].value)
             => \/ cache[k].ttl = 1 /\ procs' = procs
                \/ \E p \in Procs : Returns(p, "invalidate")
                \/ \E p \in Procs : Returns(p, "populate")
      ]_vars

(* A deploy on prod has committed, invalidated and returned; the cache      *)
(* holds the snapshot of the Deployment it deactivated, stored by a read    *)
(* that queried the store before the commit, and a read after the deploy's  *)
(* return has been served that snapshot from the cache                      *)
C32_Witness ==
    \E p, q \in Procs :
        /\ p # q
        /\ procs[q].pc = "idle" /\ procs[q].op = "deploy" /\ procs[q].status = "ok"
        /\ procs[p].pc = "idle" /\ procs[p].op = "read" /\ procs[p].status = "hit"
        /\ KeyFor("prod", NoName) \in DOMAIN cache
        /\ procs[p].ret = PromptResponseOf(cache[KeyFor("prod", NoName)].value)
        /\ \E d \in RowsIn(deployments, "prod") :
              /\ ~deployments[d].is_active
              /\ deployments[d].deployed_at = procs[p].ret.deployed_at
        /\ \E d \in ActiveIn(deployments, "prod") :
              deployments[d].deployed_at > procs[p].ret.deployed_at

(* The keys of entries that a step removes from the cache *)
RemovedKeys == DOMAIN cache \ DOMAIN cache'

(* C33: in every execution of deploy and rollback the invalidation of the   *)
(* environment's cache entries comes after the commit of the store          *)
(* transaction: a handler reaches its invalidation only by the step that    *)
(* commits its writes, the invalidation itself changes no row, a deploy or  *)
(* rollback returns success only from its one invalidation, and one that    *)
(* fails (unknown version, no active deployment, no previous deployment)    *)
(* returns without having invalidated; no other step of a deploy or         *)
(* rollback removes a cache entry.                                          *)
C33_InvalidateAfterCommit ==
    [][\A p \in Procs :
        /\ (procs'[p].pc = "invalidate" /\ procs[p].pc # "invalidate") =>
              /\ procs[p].pc \in {"deploy_commit", "rollback_commit"}
              /\ \A w \in procs[p].writes : deployments'[w[1]].is_active = w[2]
              /\ procs[p].pc = "deploy_commit" =>
                    /\ Len(deployments') = Len(deployments) + 1
                    /\ deployments'[Len(deployments')].is_active
                    /\ deployments'[Len(deployments')].environment = procs[p].env
              /\ cache' = cache
        /\ Returns(p, "invalidate") =>
              /\ deployments' = deployments
              /\ procs'[p].status = "ok"
              /\ procs'[p].op \in {"deploy", "rollback"}
              /\ \A k \in DOMAIN cache' : k \in DOMAIN cache /\ cache'[k] = cache[k]
              /\ \A k \in RemovedKeys : k = KeyFor(procs[p].env, NoName)
        /\ (procs'[p] # procs[p] /\ procs'[p].pc = "idle"
              /\ procs'[p].op \in {"deploy", "rollback"}) =>
              /\ procs'[p].status = "ok" <=> procs[p].pc = "invalidate"
              /\ procs'[p].status \in {"NotFound", "NoActive", "NoPrevious"} =>
                    /\ procs[p].pc \in {"idle", "rollback_previous"}
                    /\ cache' = cache
                    /\ deployments' = deployments
        /\ (procs'[p] # procs[p] /\ procs[p].pc # "invalidate"
              /\ procs'[p].op \in {"deploy", "rollback"}) => RemovedKeys = {}
      ]_vars

(* A deploy has committed and not yet invalidated: the store has the new    *)
(* active row while the cache still holds the snapshot of the row it        *)
(* deactivated, and a rollback by the other handler has failed for want of  *)
(* an active deployment                                                     *)
C33_Witness ==
    \E p, q \in Procs :
        /\ procs[p].pc = "invalidate" /\ procs[p].op = "deploy"
        /\ procs[p].current \in ActiveIn(deployments, "prod")
        /\ KeyFor("prod", NoName) \in DOMAIN cache
        /\ parse_datetime(cache[KeyFor("prod", NoName)].value.deployed_at)
              < deployments[procs[p].current].deployed_at
        /\ procs[q].pc = "idle" /\ procs[q].op = "rollback"
        /\ procs[q].status = "NoActive"

(* The keys under which a step stores a value: those it adds and those      *)
(* whose entry it replaces                                                  *)
WrittenKeys ==
    {k \in DOMAIN cache' : k \notin DOMAIN cache \/ cache'[k] # cache[k]}

(* C34: deploy and rollback never create or overwrite a cache entry; an     *)
(* entry is written only by a getActivePrompt whose lookup missed and whose *)
(* store query found an active Deployment of the environment, and it is     *)
(* that Deployment's snapshot, stored under the key of (environment, name   *)
(* or "default").                                                           *)
C34_OnlyReadsPopulate ==
    [][/\ lastOp'.op \in {"deploy", "rollback"} => WrittenKeys = {}
       /\ \A k \in WrittenKeys :
             /\ lastOp'.op = "read"
             /\ lastOp'.status = "miss"
             /\ k \notin DOMAIN cache \/ "get" \in lastOp'.failed
             /\ k = KeyFor(lastOp'.env, lastOp'.arg.name)
             /\ cache'[k].value.environment = lastOp'.env
             /\ \E d \in NewestActiveIn(deployments, lastOp'.env) :
                   IsSnapshotOf(PromptResponseOf(cache'[k].value),
                                versions, deployments, d)
      ]_vars

(* After a rollback whose invalidation removed the entry of the deployment  *)
(* rolled back from, a read by name has missed and stored the snapshot of   *)
(* the deployment rolled back to                                            *)
C34_Witness ==
    /\ lastOp.op = "read"
    /\ lastOp.status = "miss"
    /\ lastOp.arg.name = "greeter"
    /\ DOMAIN cache = {KeyFor(lastOp.env, "greeter")}
    /\ Cardinality(RowsIn(deployments, lastOp.env)) = 2
    /\ \E d \in ActiveIn(deployments, lastOp.env) :
          /\ \E j \in RowsIn(deployments, lastOp.env) :
                deployments[j].deployed_at > deployments[d].deployed_at
          /\ parse_datetime(cache[KeyFor(lastOp.env, "greeter")].value.deployed_at)
                = deployments[d].deployed_at

(* What a request does to the Deployment table and the status it returns,   *)
(* read off the store (table ds, versions vs, time now) and the request     *)
(* (operation, environment, arguments) alone                                *)
StoreOutcome(ds, vs, now, op, e, arg) ==
    IF op = "deploy"
    THEN IF \E v \in DOMAIN vs : vs[v].hash = arg.version_hash
         THEN [status |-> "ok",
               rows |-> DeployedTable(ds, e,
                           CHOOSE v \in DOMAIN vs : vs[v].hash = arg.version_hash,
                           arg.deployed_by, now)]
         ELSE [status |-> "NotFound", rows |-> ds]
    ELSE IF op = "rollback"
    THEN IF ActiveIn(ds, e) = {} THEN [status |-> "NoActive", rows |-> ds]
         ELSE IF RowsIn(ds, e) \ ActiveIn(ds, e) = {}
         THEN [status |-> "NoPrevious", rows |-> ds]
         ELSE [status |-> "ok", rows |-> RolledBackTable(ds, e)]
    ELSE [status |-> "none", rows |-> ds]

(* C35: what deploy and rollback do to the store does not depend on the     *)
(* cache: the Deployment rows and is_active flags after each deploy,        *)
(* rollback and read, and the status of each deploy and rollback, are       *)
(* determined by the store before it and the request, so two runs of one    *)
(* sequence of requests from one store state end with the same rows         *)
(* whatever the cache holds and whichever of its calls fail.                *)
C35_StoreIgnoresCache ==
    [][lastOp'.op \in {"deploy", "rollback", "read"} =>
        /\ deployments' =
              StoreOutcome(deployments, versions, clock.d,
                           lastOp'.op, lastOp'.env, lastOp'.arg).rows
        /\ versions' = versions
        /\ lastOp'.op \in {"deploy", "rollback"} =>
              lastOp'.status =
                  StoreOutcome(deployments, versions, clock.d,
                               lastOp'.op, lastOp'.env, lastOp'.arg).status
      ]_vars

(* A rollback has succeeded with Redis down while the cache held, and still *)
(* holds, the snapshot of the deployment it rolled back from, served to a   *)
(* read by name before                                                      *)
C35_Witness ==
    /\ lastOp.op = "rollback"
    /\ lastOp.status = "ok"
    /\ lastOp.failed = {"delete"}
    /\ KeyFor(lastOp.env, "greeter") \in DOMAIN cache
    /\ \E d \in RowsIn(deployments, lastOp.env) :
          /\ ~deployments[d].is_active
          /\ d \in ActiveIn(lastOp.pre, lastOp.env)
          /\ parse_datetime(cache[KeyFor(lastOp.env, "greeter")].value.deployed_at)
                = deployments[d].deployed_at

(* C36: the invalidation a deploy or rollback on E runs removes only        *)
(* entries populated for E: every entry populated for another environment,  *)
(* whatever characters the two names are made of, is in the cache           *)
(* afterwards as it was.                                                    *)
C36_InvalidateOnlyOwnEnvironment ==
    [][(lastOp'.op \in {"deploy", "rollback"} /\ lastOp'.invalidated) =>
        \A k \in DOMAIN cache :
            cache[k].value.environment # lastOp'.env
                => /\ k \in DOMAIN cache'
                   /\ cache'[k] = cache[k]
      ]_vars

(* C37: a cache hit of getActivePrompt(E, name) returns a snapshot that was *)
(* populated for E: the environment field of every snapshot served from the *)
(* cache equals the environment of the request, as the keys of two          *)
(* environments are never the same.                                         *)
C37_HitIsOfEnvironment ==
    (lastOp.op = "read" /\ lastOp.status = "hit") =>
        lastOp.ret.environment = lastOp.env

(* The (model, temperature, version) a metadata dict stands for when an     *)
(* absent key is read as "", 0.7 and "1.0.0"                                *)
WithDefaults(metadata) ==
    <<IF "model" \in DOMAIN metadata THEN metadata.model ELSE "",
      IF "temperature" \in DOMAIN metadata THEN metadata.temperature.tenths ELSE 7,
      IF "version" \in DOMAIN metadata THEN metadata.version ELSE "1.0.0">>

(* The metadata a node was committed with *)
CommittedMetadata(v) ==
    [k \in DOMAIN v.prompt_metadata \ {"commit_message"} |-> v.prompt_metadata[k]]

(* C38: an absent model, temperature or version counts as "", 0.7 and       *)
(* "1.0.0": a commit whose metadata omits one of them resolves to the node  *)
(* of a commit of the same content that gave that default explicitly, and   *)
(* to another node than one that gave another value for the field.          *)
C38_AbsentIsDefault ==
    /\ \A i, j \in DOMAIN versions :
          (versions[i].hash = versions[j].hash) <=>
              (/\ versions[i].content = versions[j].content
               /\ WithDefaults(CommittedMetadata(versions[i]))
                     = WithDefaults(CommittedMetadata(versions[j])))
    /\ lastOp.op = "commit" =>
          \A i \in DOMAIN lastOp.pre :
              (/\ lastOp.pre[i].content = lastOp.arg.content
               /\ WithDefaults(CommittedMetadata(lastOp.pre[i]))
                     = WithDefaults(lastOp.arg.metadata))
              <=> (lastOp.status = "existing" /\ lastOp.ret = i
                     /\ versions = lastOp.pre)

(* A commit that gave none of the three keys has resolved to the node of a  *)
(* commit that gave all three as the defaults, in a store that also holds a *)
(* node of another temperature                                              *)
C38_Witness ==
    /\ lastOp.op = "commit"
    /\ lastOp.status = "existing"
    /\ DOMAIN lastOp.arg.metadata = {"name"}
    /\ {"model", "temperature", "version"} \subseteq
          DOMAIN versions[lastOp.ret].prompt_metadata
    /\ \E j \in DOMAIN versions :
          /\ j # lastOp.ret
          /\ "model" \notin DOMAIN versions[j].prompt_metadata
          /\ "temperature" \in DOMAIN versions[j].prompt_metadata
          /\ versions[j].prompt_metadata.temperature = FloatNum(2)

====
